---- MODULE Spec2Model ----
(***************************************************************************)
(* Model of sistema-gestao-feridas: the request gate (middleware / proxy), *)
(* the token and permission library, and the patient, wound, treatment and *)
(* image route handlers over the relational store.                         *)
(*                                                                         *)
(* Conventions.  A header, cookie or optional string that is absent is the *)
(* empty string "" (both are falsy for the `!x` and `a || b` tests the     *)
(* handlers use).  An optional number that is absent is Unset.  A path is  *)
(* the sequence of its pieces ("/", "api", "/", "patients"), cut so that   *)
(* String.startsWith on the paths and route prefixes used here is exactly  *)
(* the prefix relation on the sequences.                                   *)
(***************************************************************************)
EXTENDS Integers, Sequences, FiniteSets, TLC

VARIABLES
  now,        \* the clock, in days
  gateReq,    \* the request the gate handled last
  gateRes,    \* what the gate did with it
  users,      \* table "users":       id -> row
  patients,   \* table "patients":    id -> row
  wounds,     \* table "wounds":      id -> row
  treatments, \* table "treatments":  id -> row
  images,     \* table "wound_images": id -> row
  files,      \* the urls under public/ that hold an uploaded file
  nextId,     \* per table, the number of ids handed out so far
  reqs,       \* the requests in flight: slot -> handler position and locals
  last,       \* the response sent last, with the request it answers
  limiter,    \* the arguments createRateLimiter was called with
  requests,   \* the limiter's Map: identifier -> times of the calls it counts
  accepted,   \* history: per identifier, the times of the calls that returned true
  state,      \* useAsyncOperation's state: data, loading, error
  calls       \* history: the execute calls of the hook, in the order they started

vars == <<now, gateReq, gateRes, users, patients, wounds, treatments, images, files,
          nextId, reqs, last, limiter, requests, accepted, state, calls>>
gateVars == <<gateReq, gateRes>>
dbVars == <<users, patients, wounds, treatments, images, files, nextId>>
svcVars == <<reqs, last>>
limiterVars == <<limiter, requests, accepted>>
hookVars == <<state, calls>>
clientVars == <<limiterVars, hookVars>>

----------------------------------------------------------------------------
(* Bounds of the model *)

MaxTime == 3
MaxInflight == 2
MaxPatients == 2
MaxWounds == 2
MaxTreatments == 1

----------------------------------------------------------------------------
(* lib/auth: tokens *)

JWT_SECRET == "server-secret"
OtherSecret == "other-secret"
AccessTtlDays == 7
RefreshTtlDays == 30

Roles == {"ADMIN", "DOCTOR", "NURSE", "PHYSIOTHERAPIST", "NUTRITIONIST", "PATIENT"}

\* JWTPayload: userId, email, role, name
Claims(u, e, r, n) == [userId |-> u, email |-> e, role |-> r, name |-> n]
NoClaims == [userId |-> "", email |-> "", role |-> "", name |-> ""]

\* A token string.  kind "none": no token (empty); "garbage": not a JWT;
\* "jwt": payload and `exp`, with a signature made with `secret` over the
\* content `sig`.
NoToken == [kind |-> "none", payload |-> NoClaims, secret |-> "", exp |-> 0, sig |-> <<>>]
Garbage == [kind |-> "garbage", payload |-> NoClaims, secret |-> "", exp |-> 0, sig |-> <<>>]
Jwt(p, s, e) == [kind |-> "jwt", payload |-> p, secret |-> s, exp |-> e, sig |-> <<p, e>>]

\* jwt.sign(payload, JWT_SECRET, { expiresIn: '7d' }) at time t
generateToken(p, t) == Jwt(p, JWT_SECRET, t + AccessTtlDays)

\* jwt.sign({ userId }, JWT_SECRET, { expiresIn: '30d' }) at time t
generateRefreshToken(u, t) == Jwt(Claims(u, "", "", ""), JWT_SECRET, t + RefreshTtlDays)

\* A verification that never looks at exp
JwtVerifiesForever(tok, t) ==
  tok.kind = "jwt" /\ tok.secret = JWT_SECRET /\ tok.sig = <<tok.payload, tok.exp>>

\* jwt.verify: the signature must be the server's, over the content the token
\* carries, and the clock before exp
JwtVerifies(tok, t) ==
  /\ tok.kind = "jwt"
  /\ tok.secret = JWT_SECRET
  /\ tok.sig = <<tok.payload, tok.exp>>
  /\ t < tok.exp

\* A verifyToken without its try/catch: the error of jwt.verify escapes
verifyTokenNoCatch(tok, t) ==
  IF JwtVerifies(tok, t) THEN [payload |-> tok.payload, ok |-> TRUE, threw |-> FALSE]
  ELSE [payload |-> NoClaims, ok |-> FALSE, threw |-> TRUE]

\* AuthService.verifyToken: the payload, or null (ok = FALSE) on any failure;
\* jwt.verify throws on every failure and the catch turns that into null, so
\* nothing is thrown to the caller (threw = FALSE)
verifyToken(tok, t) ==
  IF JwtVerifies(tok, t) THEN [payload |-> tok.payload, ok |-> TRUE, threw |-> FALSE]
  ELSE [payload |-> NoClaims, ok |-> FALSE, threw |-> FALSE]

----------------------------------------------------------------------------
(* lib/auth: the permission table *)

PERMISSIONS ==
  [ PATIENT_CREATE |-> "patient:create", PATIENT_READ |-> "patient:read",
    PATIENT_UPDATE |-> "patient:update", PATIENT_DELETE |-> "patient:delete",
    WOUND_CREATE |-> "wound:create", WOUND_READ |-> "wound:read",
    WOUND_UPDATE |-> "wound:update", WOUND_DELETE |-> "wound:delete",
    TREATMENT_CREATE |-> "treatment:create", TREATMENT_READ |-> "treatment:read",
    TREATMENT_UPDATE |-> "treatment:update", TREATMENT_DELETE |-> "treatment:delete",
    REPORTS_READ |-> "reports:read", REPORTS_EXPORT |-> "reports:export",
    USER_MANAGE |-> "user:manage", SYSTEM_CONFIG |-> "system:config",
    TELEMEDICINE_ACCESS |-> "telemedicine:access",
    TELEMEDICINE_MODERATE |-> "telemedicine:moderate" ]

AllPermissions == {PERMISSIONS[k] : k \in DOMAIN PERMISSIONS}

\* A table that lets nurses delete wounds
ROLE_PERMISSIONS_NurseDeletes ==
  [ ADMIN |-> AllPermissions,
    DOCTOR |-> {"patient:read"},
    NURSE |-> {"wound:read", "wound:delete"},
    PHYSIOTHERAPIST |-> {"patient:read"},
    NUTRITIONIST |-> {"patient:read"},
    PATIENT |-> {"telemedicine:access"} ]

ROLE_PERMISSIONS ==
  [ ADMIN |-> AllPermissions,
    DOCTOR |-> {"patient:create", "patient:read", "patient:update",
                "wound:create", "wound:read", "wound:update",
                "treatment:create", "treatment:read", "treatment:update",
                "reports:read", "telemedicine:access", "telemedicine:moderate"},
    NURSE |-> {"patient:read", "patient:update",
               "wound:create", "wound:read", "wound:update",
               "treatment:create", "treatment:read", "treatment:update",
               "telemedicine:access"},
    PHYSIOTHERAPIST |-> {"patient:read", "wound:read", "treatment:read",
                         "treatment:update", "telemedicine:access"},
    NUTRITIONIST |-> {"patient:read", "wound:read", "treatment:read",
                      "telemedicine:access"},
    PATIENT |-> {"telemedicine:access"} ]

\* Property names every object literal inherits from Object.prototype; the
\* value found under them is a function or an object without `includes`
ObjectPrototypeKeys ==
  {"constructor", "toString", "valueOf", "hasOwnProperty", "isPrototypeOf", "__proto__"}

\* ROLE_PERMISSIONS[userRole]: "list" for a role of the table, "inherited" for
\* an inherited property, "undefined" for any other key
RoleLookup(userRole) ==
  IF userRole \in DOMAIN ROLE_PERMISSIONS THEN "list"
  ELSE IF userRole \in ObjectPrototypeKeys THEN "inherited"
  ELSE "undefined"

\* ROLE_PERMISSIONS[userRole]?.includes(permission): ?. guards only against
\* null and undefined, so calling the missing `includes` is a TypeError
hasPermissionThrows(userRole, permission) == RoleLookup(userRole) = "inherited"

\* ROLE_PERMISSIONS[userRole]?.includes(permission) || false, when it returns
hasPermission(userRole, permission) ==
  IF RoleLookup(userRole) = "list"
  THEN permission \in ROLE_PERMISSIONS[userRole]
  ELSE FALSE

\* What a call of hasPermission comes to: "true", "false" or "throws"
hasPermissionOutcome(userRole, permission) ==
  IF hasPermissionThrows(userRole, permission) THEN "throws"
  ELSE IF hasPermission(userRole, permission) THEN "true"
  ELSE "false"

----------------------------------------------------------------------------
(* The request gate: src/middleware.ts and its successor proxy.ts *)

StartsWith(pathname, route) ==
  /\ Len(route) <= Len(pathname)
  /\ SubSeq(pathname, 1, Len(route)) = route

\* The list without its last entry, '/'
publicRoutesNoRoot ==
  { <<"/", "api", "/", "auth", "/", "login">>,
    <<"/", "api", "/", "auth", "/", "register">>,
    <<"/", "api", "/", "health">>,
    <<"/", "login">>,
    <<"/", "register">> }

publicRoutes ==
  { <<"/", "api", "/", "auth", "/", "login">>,
    <<"/", "api", "/", "auth", "/", "register">>,
    <<"/", "api", "/", "health">>,
    <<"/", "login">>,
    <<"/", "register">>,
    <<"/">> }

protectedApiRoutes ==
  { <<"/", "api", "/", r>> :
      r \in {"patients", "wounds", "treatments", "appointments", "reports",
             "telemedicine", "users"} }

proxyProtectedApiRoutes == protectedApiRoutes \cup { <<"/", "api", "/", "images">> }

specialAuthRoutes ==
  { <<"/", "api", "/", "auth", "/", "me">>, <<"/", "api", "/", "auth", "/", "logout">> }

protectedDashboardRoutes ==
  { <<"/", r>> :
      r \in {"dashboard", "patients", "wounds", "treatments", "appointments",
             "reports", "telemedicine", "profile"} }

\* publicRoutes.some(route => pathname === route || pathname.startsWith(route))
IsPublic(pathname) ==
  \E route \in publicRoutes : pathname = route \/ StartsWith(pathname, route)

IsProtectedApi(pathname) == \E route \in protectedApiRoutes : StartsWith(pathname, route)
IsProxyProtectedApi(pathname) ==
  \E route \in proxyProtectedApiRoutes : StartsWith(pathname, route)
IsSpecialAuth(pathname) == \E route \in specialAuthRoutes : StartsWith(pathname, route)
IsProtectedDashboard(pathname) ==
  \E route \in protectedDashboardRoutes : StartsWith(pathname, route)

\* The x-user-* request headers
Hdr(i, r, e, n) == [xUserId |-> i, xUserRole |-> r, xUserEmail |-> e, xUserName |-> n]
NoHdr == Hdr("", "", "", "")

\* What the gate answers: NextResponse.next (with the headers the handler will
\* see), a 401 JSON body, or a redirect to /login.
GateNext(h) == [kind |-> "next", status |-> 200, headers |-> h]
Gate401 == [kind |-> "json", status |-> 401, headers |-> NoHdr]
GateRedirect == [kind |-> "redirect", status |-> 307, headers |-> NoHdr]
\* An error escaping the gate, which has no try/catch: the framework's 500
GateError == [kind |-> "error", status |-> 500, headers |-> NoHdr]

\* request.cookies.get('auth-token')?.value ||
\* request.headers.get('authorization')?.replace('Bearer ', '')
RequestToken(req) == IF req.cookie.kind # "none" THEN req.cookie ELSE req.bearer

middleware(req, t) ==
  IF IsPublic(req.path) THEN GateNext(req.headers)
  ELSE IF IsProtectedApi(req.path) \/ IsProtectedDashboard(req.path)
  THEN LET token == RequestToken(req)
           v == verifyToken(token, t)
       IN IF token.kind = "none"
          THEN IF IsProtectedApi(req.path) THEN Gate401 ELSE GateRedirect
          ELSE IF v.threw THEN GateError
          ELSE IF ~v.ok
          THEN IF IsProtectedApi(req.path) THEN Gate401 ELSE GateRedirect
          ELSE GateNext(Hdr(v.payload.userId, v.payload.role,
                            v.payload.email, v.payload.name))
  ELSE GateNext(req.headers)

proxy(req, t) ==
  IF IsPublic(req.path) THEN GateNext(req.headers)
  ELSE IF IsSpecialAuth(req.path) THEN GateNext(req.headers)
  ELSE IF IsProxyProtectedApi(req.path)
  THEN IF req.headers.xUserId = "" THEN Gate401
       ELSE GateNext([req.headers EXCEPT !.xUserId = req.headers.xUserId])
  ELSE IF IsProtectedDashboard(req.path)
  THEN IF req.cookie.kind = "none" THEN GateRedirect
       ELSE IF ~verifyToken(req.cookie, t).ok THEN GateRedirect
       ELSE GateNext(req.headers)
  ELSE GateNext(req.headers)

\* The gate a deployment runs: one of the two files
Gates == {"middleware", "proxy"}
RunGate(g, req, t) == IF g = "middleware" THEN middleware(req, t) ELSE proxy(req, t)

----------------------------------------------------------------------------
(* Requests a client can send to the gate *)

\* Seeded accounts (rows of table "users")
UserRow(e, r, n, a) == [email |-> e, role |-> r, name |-> n, isActive |-> a]
SeedUsers ==
  [ u1 |-> UserRow("ana@clinic", "ADMIN", "Ana", TRUE),
    u2 |-> UserRow("nuno@clinic", "NURSE", "Nuno", TRUE) ]
ClaimsOf(u) == Claims(u, SeedUsers[u].email, SeedUsers[u].role, SeedUsers[u].name)

\* A token issued AccessTtlDays - 1 days before the clock starts expires at day 1
OldIssue == 1 - AccessTtlDays

GatePaths ==
  { <<"/", "api", "/", "patients">>,
    <<"/", "api", "/", "wounds", "/", "w1">>,
    <<"/", "api", "/", "images">>,
    <<"/", "dashboard">>,
    <<"/", "api", "/", "auth", "/", "login">>,
    <<"/", "about">> }

GateCookies ==
  { NoToken, Garbage,
    generateToken(ClaimsOf("u2"), 0),
    generateToken(ClaimsOf("u2"), OldIssue),
    Jwt(ClaimsOf("u1"), OtherSecret, AccessTtlDays) }

GateBearers ==
  { NoToken,
    generateToken(ClaimsOf("u2"), 0),
    generateToken(ClaimsOf("u1"), OldIssue),
    generateRefreshToken("u2", 0) }

\* x-user-* headers as the client itself sets them
ClientHeaders ==
  { NoHdr,
    Hdr("u1", "ADMIN", "ana@clinic", "Ana"),
    Hdr("u2", "NURSE", "nuno@clinic", "Nuno"),
    Hdr("ghost", "ADMIN", "x@evil", "Eve") }

Request(p, c, b, h) == [headers |-> h, cookie |-> c, bearer |-> b, path |-> p]
GateRequests ==
  { Request(p, c, b, h) : p \in GatePaths, c \in GateCookies, b \in GateBearers,
                          h \in ClientHeaders }

NoRequest == Request(<<>>, NoToken, NoToken, NoHdr)
GateIdle == [kind |-> "idle", status |-> 0, headers |-> NoHdr, by |-> "", at |-> 0]
GateResult(g, r, t) == [kind |-> r.kind, status |-> r.status, headers |-> r.headers,
                        by |-> g, at |-> t]

----------------------------------------------------------------------------
(* The gate as a state machine *)

NoSlot == [op |-> "idle"]
NoLast == [op |-> "none"]

EmptyTable == [x \in {} |-> 0]

\* No limiter was created and the hook is as useState initialised it
NoLimiter == [maxRequests |-> 0, windowMs |-> 0]
InitialState == [data |-> 0, loading |-> FALSE, error |-> 0]
InitClient ==
  /\ limiter = NoLimiter
  /\ requests = EmptyTable
  /\ accepted = <<>>
  /\ state = InitialState
  /\ calls = <<>>
NoIds == [patients |-> 0, wounds |-> 0, treatments |-> 0, images |-> 0]

InitGate ==
  /\ now = 0
  /\ InitClient
  /\ gateReq = NoRequest
  /\ gateRes = GateIdle
  /\ users = SeedUsers
  /\ patients = EmptyTable
  /\ wounds = EmptyTable
  /\ treatments = EmptyTable
  /\ images = EmptyTable
  /\ files = {}
  /\ nextId = NoIds
  /\ reqs = [s \in 1..MaxInflight |-> NoSlot]
  /\ last = NoLast

Tick ==
  /\ now < MaxTime
  /\ now' = now + 1
  /\ UNCHANGED <<gateVars, dbVars, svcVars, clientVars>>

\* src/middleware.ts handles one request
GateMiddleware ==
  \E req \in GateRequests :
    /\ gateReq' = req
    /\ gateRes' = GateResult("middleware", middleware(req, now), now)
    /\ UNCHANGED <<clientVars, now, dbVars, svcVars>>

\* proxy.ts handles one request
GateProxy ==
  \E req \in GateRequests :
    /\ gateReq' = req
    /\ gateRes' = GateResult("proxy", proxy(req, now), now)
    /\ UNCHANGED <<clientVars, now, dbVars, svcVars>>

NextGate == Tick \/ GateMiddleware \/ GateProxy

SpecGate == InitGate /\ [][NextGate]_vars

\* The request the gate handled is for a protected path
GateProtectedApi == IsProtectedApi(gateReq.path)
GateProtected == IsProtectedApi(gateReq.path) \/ IsProtectedDashboard(gateReq.path)
\* The token of the handled request verified when the gate handled it
GateTokenOk == verifyToken(RequestToken(gateReq), gateRes.at).ok

\* C1: a request to a protected API or dashboard path reaches its handler only
\* with a token that verifyToken accepts; without one an API path is answered
\* 401 and a dashboard path is redirected to /login.
C1_ProtectedPathNeedsValidToken ==
  (gateRes.kind # "idle" /\ GateProtected) =>
    IF GateTokenOk THEN gateRes.kind = "next"
    ELSE IF GateProtectedApi THEN gateRes.kind = "json" /\ gateRes.status = 401
    ELSE gateRes.kind = "redirect"

\* C2: the x-user-* headers a handler observes are the fields of the payload
\* verified for that request, never the values the client supplied.
C2_HandlerHeadersComeFromToken ==
  (gateRes.kind = "next" /\ gateRes.headers # NoHdr) =>
    LET v == verifyToken(RequestToken(gateReq), gateRes.at)
    IN /\ v.ok
       /\ gateRes.headers = Hdr(v.payload.userId, v.payload.role,
                                v.payload.email, v.payload.name)

----------------------------------------------------------------------------
(* The relational store (Prisma over the tables of the init migration) *)

Put(tbl, id, row) == [x \in DOMAIN tbl \cup {id} |-> IF x = id THEN row ELSE tbl[x]]
Remove(tbl, id) == [x \in DOMAIN tbl \ {id} |-> tbl[x]]

\* CREATE UNIQUE INDEX "patients_cpf_key": does a row other than `self` hold cpf?
CpfHeld(tbl, cpf, self) == \E p \in DOMAIN tbl : p # self /\ tbl[p].cpf = cpf

\* prisma.patient.findUnique({ where: { cpf } }) found a row
FindByCpf(tbl, cpf) == CpfHeld(tbl, cpf, 0)

----------------------------------------------------------------------------
(* Requests in flight and responses *)

Slots == 1..MaxInflight
Busy == {s \in Slots : reqs[s] # NoSlot}

\* The x-user-* headers the gate hands to the handler of `path`, over every
\* request a client can send there and either gate file.
DeliveredHeaders(path, clientHdrs) ==
  LET outs == { RunGate(g, Request(path, c, b, h), 0) :
                  g \in Gates, c \in GateCookies, b \in GateBearers, h \in clientHdrs }
  IN { o.headers : o \in {x \in outs : x.kind = "next"} }

\* A request enters the lowest free slot; k is the number of requests the
\* server may have in flight.  The previous response has been delivered.
Receive(k, r) ==
  /\ Cardinality(Busy) < k
  /\ LET s == CHOOSE x \in Slots \ Busy : \A y \in Slots \ Busy : x <= y
     IN reqs' = [reqs EXCEPT ![s] = r]
  /\ last' = NoLast
  /\ UNCHANGED <<clientVars, now, gateVars, dbVars>>

\* NextResponse.json(body, { status }): the handler returns
Respond(s, status, body) ==
  /\ last' = [status |-> status, req |-> reqs[s], op |-> reqs[s].op, body |-> body]
  /\ reqs' = [reqs EXCEPT ![s] = NoSlot]

Goto(s, pc) ==
  /\ reqs' = [reqs EXCEPT ![s].pc = pc]
  /\ UNCHANGED last

Msg(m) == [message |-> m]
MsgInvalid == Msg("Dados invalidos")
MsgServerError == Msg("Erro interno do servidor")
MsgDuplicateCpf == Msg("Ja existe um paciente com este CPF")
MsgUnauthenticated == Msg("Usuario nao autenticado")
MsgPatientNotFound == Msg("Paciente nao encontrado")

----------------------------------------------------------------------------
(* /api/patients: payloads and validation *)

\* Strings whose length or characters the schema inspects are sequences.
Str(n, c) == [i \in 1..n |-> c]
Digits == 0..9
CpfLen == 11

\* z.string().regex(/^\d{11}$/)
ValidCpf(c) == Len(c) = CpfLen /\ \A i \in 1..Len(c) : c[i] \in Digits
\* z.string().min(2)
ValidName(n) == Len(n) >= 2

\* new Date(str): the instant (a day number), or Invalid Date
InvalidDate == 0 - 1
ParseDate(str) ==
  CASE str = "1990-05-17" -> 1
    [] str = "1990-05-17T00:00:00.000Z" -> 1
    [] str = "2001-02-03" -> 2
    [] str = "2001-02-03T00:00:00.000Z" -> 2
    [] OTHER -> InvalidDate
\* Date.prototype.toISOString, as JSON.stringify writes a stored date
ToISOString(d) ==
  CASE d = 1 -> "1990-05-17T00:00:00.000Z"
    [] d = 2 -> "2001-02-03T00:00:00.000Z"
    [] OTHER -> ""

\* A body: name, cpf, birthDate (the other text columns are copied as name is);
\* an absent field is empty.
PatientBody(n, c, d) == [name |-> n, cpf |-> c, birthDate |-> d]

\* createPatientSchema.parse succeeds
ValidCreatePatient(b) ==
  /\ b.name # <<>> /\ ValidName(b.name)
  /\ b.cpf # <<>> /\ ValidCpf(b.cpf)
  /\ b.birthDate # ""

\* updatePatientSchema.parse succeeds: every field optional
ValidUpdatePatient(b) ==
  /\ b.name # <<>> => ValidName(b.name)
  /\ b.cpf # <<>> => ValidCpf(b.cpf)

\* JSON of a patient row
PatientJson(id, row) ==
  [ name |-> row.name, status |-> row.status, id |-> id,
    cpf |-> row.cpf, birthDate |-> ToISOString(row.birthDate),
    responsibleId |-> row.responsibleId ]

----------------------------------------------------------------------------
(* POST /api/patients *)

PatientsPath == <<"/", "api", "/", "patients">>

PatientPostReceive(k, bodies, clientHdrs) ==
  \E b \in bodies, h \in DeliveredHeaders(PatientsPath, clientHdrs) :
    /\ nextId.patients + Cardinality({s \in Busy : reqs[s].op = "patientPost"}) < MaxPatients
    /\ Receive(k, [op |-> "patientPost", body |-> b, pc |-> "find", hdr |-> h])

\* What the handler answers before it creates, over table tbl: parse,
\* findUnique by cpf, then the x-user-id test; status 0 when it goes on
PatientPostCheck(tbl, b, h) ==
  IF ~ValidCreatePatient(b) THEN [status |-> 400, body |-> MsgInvalid]
  ELSE IF FindByCpf(tbl, b.cpf) THEN [status |-> 400, body |-> MsgDuplicateCpf]
  ELSE IF h.xUserId = "" THEN [status |-> 401, body |-> MsgUnauthenticated]
  ELSE [status |-> 0, body |-> Msg("")]

PatientPostFind ==
  \E s \in Busy :
    /\ reqs[s].op = "patientPost" /\ reqs[s].pc = "find"
    /\ LET r == PatientPostCheck(patients, reqs[s].body, reqs[s].hdr)
       IN IF r.status # 0 THEN Respond(s, r.status, r.body) ELSE Goto(s, "create")
    /\ UNCHANGED <<clientVars, now, gateVars, dbVars>>

\* prisma.patient.create: the insert fails on an invalid date, on the unique
\* index and on the foreign key of responsibleId; the catch answers 500
PatientPostCreate ==
  \E s \in Busy :
    /\ reqs[s].op = "patientPost" /\ reqs[s].pc = "create"
    /\ LET b == reqs[s].body
           id == nextId.patients + 1
           row == [ name |-> b.name, status |-> "ATIVO", cpf |-> b.cpf,
                    birthDate |-> ParseDate(b.birthDate), responsibleId |-> reqs[s].hdr.xUserId ]
       IN IF \/ row.birthDate = InvalidDate
             \/ CpfHeld(patients, row.cpf, 0)
             \/ row.responsibleId \notin DOMAIN users
          THEN /\ Respond(s, 500, MsgServerError)
               /\ UNCHANGED dbVars
          ELSE /\ patients' = Put(patients, id, row)
               /\ nextId' = [nextId EXCEPT !.patients = id]
               /\ Respond(s, 201, PatientJson(id, row))
               /\ UNCHANGED <<users, wounds, treatments, images, files>>
    /\ UNCHANGED <<clientVars, now, gateVars>>

----------------------------------------------------------------------------
(* GET /api/patients/{id} *)

\* What GET answers for id over a given table
PatientGetResponse(tbl, id) ==
  IF id \notin DOMAIN tbl THEN [status |-> 404, body |-> MsgPatientNotFound]
  ELSE [status |-> 200, body |-> PatientJson(id, tbl[id])]

PatientIdsAsked == 1..MaxPatients

PatientGetReceive(k) ==
  \E id \in PatientIdsAsked :
    Receive(k, [op |-> "patientGet", id |-> id, pc |-> "find"])

PatientGetFind ==
  \E s \in Busy :
    /\ reqs[s].op = "patientGet" /\ reqs[s].pc = "find"
    /\ LET r == PatientGetResponse(patients, reqs[s].id)
       IN Respond(s, r.status, r.body)
    /\ UNCHANGED <<clientVars, now, gateVars, dbVars>>

----------------------------------------------------------------------------
(* PUT /api/patients/{id} *)

\* A PUT handler that looks the CPF up whenever the payload carries one
CpfChangedAlways(b, existing) == b.cpf # <<>>

\* validatedData.cpf && validatedData.cpf !== existingPatient.cpf
CpfChanged(b, existing) == b.cpf # <<>> /\ b.cpf # existing.cpf

\* { ...validatedData }: the fields present replace the stored ones
MergePatient(row, b) ==
  [ row EXCEPT !.name = IF b.name # <<>> THEN b.name ELSE @,
               !.cpf = IF b.cpf # <<>> THEN b.cpf ELSE @,
               !.birthDate = IF b.birthDate # "" THEN ParseDate(b.birthDate) ELSE @ ]

PatientPutReceive(k, bodies) ==
  \E id \in PatientIdsAsked, b \in bodies :
    Receive(k, [op |-> "patientPut", id |-> id, body |-> b, pc |-> "find"])

PatientPutFind ==
  \E s \in Busy :
    /\ reqs[s].op = "patientPut" /\ reqs[s].pc = "find"
    /\ LET b == reqs[s].body
           id == reqs[s].id
       IN IF ~ValidUpdatePatient(b) THEN Respond(s, 400, MsgInvalid)
          ELSE IF id \notin DOMAIN patients THEN Respond(s, 404, MsgPatientNotFound)
          ELSE IF CpfChanged(b, patients[id]) THEN Goto(s, "cpfCheck")
          ELSE Goto(s, "update")
    /\ UNCHANGED <<clientVars, now, gateVars, dbVars>>

PatientPutCpfCheck ==
  \E s \in Busy :
    /\ reqs[s].op = "patientPut" /\ reqs[s].pc = "cpfCheck"
    /\ IF FindByCpf(patients, reqs[s].body.cpf) THEN Respond(s, 400, MsgDuplicateCpf)
       ELSE Goto(s, "update")
    /\ UNCHANGED <<clientVars, now, gateVars, dbVars>>

PatientPutUpdate ==
  \E s \in Busy :
    /\ reqs[s].op = "patientPut" /\ reqs[s].pc = "update"
    /\ LET id == reqs[s].id
       IN IF id \notin DOMAIN patients
          THEN /\ Respond(s, 500, MsgServerError)
               /\ UNCHANGED dbVars
          ELSE LET row == MergePatient(patients[id], reqs[s].body)
               IN IF row.birthDate = InvalidDate \/ CpfHeld(patients, row.cpf, id)
                  THEN /\ Respond(s, 500, MsgServerError)
                       /\ UNCHANGED dbVars
                  ELSE /\ patients' = Put(patients, id, row)
                       /\ Respond(s, 200, PatientJson(id, row))
                       /\ UNCHANGED <<users, wounds, treatments, images, files, nextId>>
    /\ UNCHANGED <<clientVars, now, gateVars>>

----------------------------------------------------------------------------
(* DELETE /api/patients/{id}: a soft delete *)

PatientDeleteReceive(k) ==
  \E id \in PatientIdsAsked :
    Receive(k, [op |-> "patientDelete", id |-> id, pc |-> "find"])

PatientDeleteFind ==
  \E s \in Busy :
    /\ reqs[s].op = "patientDelete" /\ reqs[s].pc = "find"
    /\ IF reqs[s].id \notin DOMAIN patients THEN Respond(s, 404, MsgPatientNotFound)
       ELSE Goto(s, "update")
    /\ UNCHANGED <<clientVars, now, gateVars, dbVars>>

\* A handler that deletes the row; the foreign keys of wounds, of their images
\* and of their treatments then remove or detach the dependents
PatientDeleteUpdateHard ==
  \E s \in Busy :
    /\ reqs[s].op = "patientDelete" /\ reqs[s].pc = "update"
    /\ LET id == reqs[s].id
           gone == {w \in DOMAIN wounds : wounds[w].patientId = id}
       IN IF id \notin DOMAIN patients
          THEN /\ Respond(s, 500, MsgServerError)
               /\ UNCHANGED dbVars
          ELSE /\ patients' = Remove(patients, id)
               /\ wounds' = [w \in DOMAIN wounds \ gone |-> wounds[w]]
               /\ images' = [i \in {x \in DOMAIN images : images[x].woundId \notin gone}
                               |-> images[i]]
               /\ Respond(s, 200, MsgPatientNotFound)
               /\ UNCHANGED <<users, treatments, files, nextId>>
    /\ UNCHANGED <<clientVars, now, gateVars>>

PatientDeleteUpdate ==
  \E s \in Busy :
    /\ reqs[s].op = "patientDelete" /\ reqs[s].pc = "update"
    /\ LET id == reqs[s].id
       IN IF id \notin DOMAIN patients
          THEN /\ Respond(s, 500, MsgServerError)
               /\ UNCHANGED dbVars
          ELSE LET row == [patients[id] EXCEPT !.status = "ALTA"]
               IN /\ patients' = Put(patients, id, row)
                  /\ Respond(s, 200, PatientJson(id, row))
                  /\ UNCHANGED <<users, wounds, treatments, images, files, nextId>>
    /\ UNCHANGED <<clientVars, now, gateVars>>

----------------------------------------------------------------------------
(* The patient service: one request at a time, and two at a time *)

Cpf1 == Str(CpfLen, 1)
Cpf2 == Str(CpfLen, 2)
ShortCpf == Str(3, 1)
NameAl == <<"A", "l">>
NameBo == <<"B", "o">>

PatientPostBodies ==
  { PatientBody(n, c, d) : n \in {NameAl, NameBo}, c \in {Cpf1, Cpf2, ShortCpf},
                           d \in {"1990-05-17", "2001-02-03T00:00:00.000Z", "soon"} }
PatientPutBodies ==
  { PatientBody(n, c, d) : n \in {<<>>, NameBo, <<"B">>}, c \in {<<>>, Cpf1, Cpf2},
                           d \in {"", "2001-02-03", "soon"} }

InitService ==
  /\ now = 0
  /\ InitClient
  /\ gateReq = NoRequest
  /\ gateRes = GateIdle
  /\ users = SeedUsers
  /\ patients = EmptyTable
  /\ wounds = EmptyTable
  /\ treatments = EmptyTable
  /\ images = EmptyTable
  /\ files = {}
  /\ nextId = NoIds
  /\ reqs = [s \in Slots |-> NoSlot]
  /\ last = NoLast

NextPatient ==
  \/ PatientPostReceive(1, PatientPostBodies, ClientHeaders)
  \/ PatientPostFind
  \/ PatientPostCreate
  \/ PatientGetReceive(1)
  \/ PatientGetFind
  \/ PatientPutReceive(1, PatientPutBodies)
  \/ PatientPutFind
  \/ PatientPutCpfCheck
  \/ PatientPutUpdate
  \/ PatientDeleteReceive(1)
  \/ PatientDeleteFind
  \/ PatientDeleteUpdate

SpecPatient == InitService /\ [][NextPatient]_vars

\* Two requests may be in flight; the payloads are the ones a duplicate
\* registration sends.
PatientRaceBodies == { PatientBody(n, Cpf1, "1990-05-17") : n \in {NameAl, NameBo} }
PatientRaceHeaders == { Hdr("u2", "NURSE", "nuno@clinic", "Nuno") }

NextPatientRace ==
  \/ PatientPostReceive(MaxInflight, PatientRaceBodies, PatientRaceHeaders)
  \/ PatientPostFind
  \/ PatientPostCreate
  \/ PatientGetReceive(MaxInflight)
  \/ PatientGetFind

SpecPatientRace == InitService /\ [][NextPatientRace]_vars

\* Slot s answers a request of kind op in this step
Answers(s, op) == reqs[s].op = op /\ reqs'[s] = NoSlot

\* C6: POST /api/patients with a CPF a stored patient holds returns 400 with
\* the duplicate-CPF message and creates nothing; with a valid payload whose
\* CPF no patient holds it returns 201, and GET by the returned id returns the
\* submitted field values.
C6_CreatePatientContract ==
  [][ \A s \in Slots :
        Answers(s, "patientPost") /\ ValidCreatePatient(reqs[s].body) =>
          LET b == reqs[s].body
          IN IF FindByCpf(patients, b.cpf)
             THEN /\ last'.status = 400
                  /\ last'.body = MsgDuplicateCpf
                  /\ patients' = patients
             ELSE /\ last'.status = 201
                  /\ LET g == PatientGetResponse(patients', last'.body.id)
                     IN /\ g.status = 200
                        /\ g.body.name = b.name
                        /\ g.body.cpf = b.cpf
                        /\ ParseDate(g.body.birthDate) = ParseDate(b.birthDate)
    ]_vars

\* No two stored patients hold the same CPF
UniqueCpf == \A p, q \in DOMAIN patients : p # q => patients[p].cpf # patients[q].cpf

C8_ConcurrentDuplicateGets400 ==
  /\ Cardinality({p \in DOMAIN patients : patients[p].cpf = Cpf1}) <= 1
  /\ last.op = "patientPost" =>
       \/ last.status = 201
       \/ last.status = 400 /\ last.body = MsgDuplicateCpf

----------------------------------------------------------------------------
(* /api/wounds: payloads and validation *)

\* An optional number that the payload or the row does not carry
Unset == 0 - 1
\* JavaScript truthiness of an optional number: undefined and 0 are falsy
Truthy(x) == x # Unset /\ x # 0
\* z.number().positive().optional()
OptPositive(x) == x = Unset \/ x > 0

\* A body: patientId (0: absent), length, width, area
WoundBody(p, l, w, a) == [patientId |-> p, length |-> l, width |-> w, area |-> a]

\* A body written with its type and its location
TypedWoundBody(p, ty, loc) ==
  [patientId |-> p, length |-> Unset, width |-> Unset, area |-> Unset, type |-> ty,
   location |-> loc]

WoundTypes ==
  {"PRESSURE_ULCER", "DIABETIC_ULCER", "VENOUS_ULCER", "ARTERIAL_ULCER", "SURGICAL",
   "TRAUMATIC", "OTHER"}
LocHeel == <<"H", "e", "e", "l">>

\* The type and the location of a body; a body written without them is of
\* type OTHER, at the heel
WoundTypeOf(b) == IF "type" \in DOMAIN b THEN b.type ELSE "OTHER"
WoundLocationOf(b) == IF "location" \in DOMAIN b THEN b.location ELSE LocHeel

\* createWoundSchema.parse succeeds
ValidCreateWound(b) ==
  /\ b.patientId # 0
  /\ WoundTypeOf(b) \in WoundTypes
  /\ WoundLocationOf(b) # <<>>
  /\ OptPositive(b.length) /\ OptPositive(b.width) /\ OptPositive(b.area)

\* updateWoundSchema.parse succeeds
ValidUpdateWound(b) == OptPositive(b.length) /\ OptPositive(b.width) /\ OptPositive(b.area)

\* A handler that stores the payload's area and derives nothing
CalculatedAreaGiven(b) == b.area

\* let calculatedArea = validatedData.area
\* if (!calculatedArea && validatedData.length && validatedData.width)
\*   calculatedArea = validatedData.length * validatedData.width
CalculatedArea(b) ==
  IF ~Truthy(b.area) /\ Truthy(b.length) /\ Truthy(b.width)
  THEN b.length * b.width
  ELSE b.area

\* request.headers.get('x-user-id') || 'user-1'
CreatorOf(h) == IF h.xUserId # "" THEN h.xUserId ELSE "user-1"

WoundJson(id, row) == [id |-> id] @@ row

MsgWoundNotFound == Msg("Ferida nao encontrada")
MsgWoundDeleted == Msg("Ferida excluida com sucesso")
\* the body of the refusal: the message and details { treatments, images }
WoundInUse(nt, ni) ==
  [ treatments |-> nt,
    images |-> ni, message |-> "Nao e possivel excluir ferida com tratamentos ou imagens associadas" ]

WoundsPath == <<"/", "api", "/", "wounds">>
WoundIdsAsked == 1..MaxWounds

----------------------------------------------------------------------------
(* POST /api/wounds *)

WoundPostReceive(k, bodies, clientHdrs) ==
  \E b \in bodies, h \in DeliveredHeaders(WoundsPath, clientHdrs) :
    /\ nextId.wounds + Cardinality({s \in Busy : reqs[s].op = "woundPost"}) < MaxWounds
    /\ Receive(k, [op |-> "woundPost", body |-> b, pc |-> "find", hdr |-> h])

\* parse, then prisma.patient.findUnique
WoundPostFind ==
  \E s \in Busy :
    /\ reqs[s].op = "woundPost" /\ reqs[s].pc = "find"
    /\ LET b == reqs[s].body
       IN IF ~ValidCreateWound(b) THEN Respond(s, 400, MsgInvalid)
          ELSE IF b.patientId \notin DOMAIN patients THEN Respond(s, 404, MsgPatientNotFound)
          ELSE Goto(s, "create")
    /\ UNCHANGED <<clientVars, now, gateVars, dbVars>>

\* prisma.wound.create: the foreign keys of patientId and createdById must hold
WoundPostCreate ==
  \E s \in Busy :
    /\ reqs[s].op = "woundPost" /\ reqs[s].pc = "create"
    /\ LET b == reqs[s].body
           id == nextId.wounds + 1
           row == [ status |-> "ACTIVE", patientId |-> b.patientId, length |-> b.length,
                    width |-> b.width, area |-> CalculatedArea(b),
                    type |-> WoundTypeOf(b), location |-> WoundLocationOf(b),
                    createdById |-> CreatorOf(reqs[s].hdr) ]
       IN IF row.patientId \notin DOMAIN patients \/ row.createdById \notin DOMAIN users
          THEN /\ Respond(s, 500, MsgServerError)
               /\ UNCHANGED dbVars
          ELSE /\ wounds' = Put(wounds, id, row)
               /\ nextId' = [nextId EXCEPT !.wounds = id]
               /\ Respond(s, 201, WoundJson(id, row))
               /\ UNCHANGED <<users, patients, treatments, images, files>>
    /\ UNCHANGED <<clientVars, now, gateVars>>

----------------------------------------------------------------------------
(* PUT /api/wounds/{id} *)

\* data: { ...validatedData, area: calculatedArea }; Prisma leaves a column
\* whose value is undefined as it is
MergeWound(row, b) ==
  [ row EXCEPT !.length = IF b.length # Unset THEN b.length ELSE @,
               !.width = IF b.width # Unset THEN b.width ELSE @,
               !.area = IF CalculatedArea(b) # Unset THEN CalculatedArea(b) ELSE @ ]

WoundPutReceive(k, bodies) ==
  \E id \in WoundIdsAsked, b \in bodies :
    Receive(k, [op |-> "woundPut", id |-> id, body |-> b, pc |-> "find"])

WoundPutFind ==
  \E s \in Busy :
    /\ reqs[s].op = "woundPut" /\ reqs[s].pc = "find"
    /\ IF ~ValidUpdateWound(reqs[s].body) THEN Respond(s, 400, MsgInvalid)
       ELSE IF reqs[s].id \notin DOMAIN wounds THEN Respond(s, 404, MsgWoundNotFound)
       ELSE Goto(s, "update")
    /\ UNCHANGED <<clientVars, now, gateVars, dbVars>>

WoundPutUpdate ==
  \E s \in Busy :
    /\ reqs[s].op = "woundPut" /\ reqs[s].pc = "update"
    /\ LET id == reqs[s].id
       IN IF id \notin DOMAIN wounds
          THEN /\ Respond(s, 500, MsgServerError)
               /\ UNCHANGED dbVars
          ELSE LET row == MergeWound(wounds[id], reqs[s].body)
               IN /\ wounds' = Put(wounds, id, row)
                  /\ Respond(s, 200, WoundJson(id, row))
                  /\ UNCHANGED <<users, patients, treatments, images, files, nextId>>
    /\ UNCHANGED <<clientVars, now, gateVars>>

----------------------------------------------------------------------------
(* DELETE /api/wounds/{id} *)

\* The NULL of a nullable foreign key
NullId == 0

TreatmentsOf(w) == {t \in DOMAIN treatments : treatments[t].woundId = w}
ImagesOf(w) == {i \in DOMAIN images : images[i].woundId = w}

\* DELETE FROM wounds: wound_images.woundId is ON DELETE CASCADE,
\* treatments.woundId is ON DELETE SET NULL
CascadeImages(tbl, w) == [i \in {x \in DOMAIN tbl : tbl[x].woundId # w} |-> tbl[i]]
SetNullTreatments(tbl, w) ==
  [t \in DOMAIN tbl |-> IF tbl[t].woundId = w THEN [tbl[t] EXCEPT !.woundId = NullId]
                        ELSE tbl[t]]

WoundDeleteReceive(k, clientHdrs) ==
  \E id \in WoundIdsAsked, h \in DeliveredHeaders(WoundsPath, clientHdrs) :
    Receive(k, [op |-> "woundDelete", id |-> id, pc |-> "find", hdr |-> h])

\* findUnique with include { treatments, images }, then the dependents test
WoundDeleteFind ==
  \E s \in Busy :
    /\ reqs[s].op = "woundDelete" /\ reqs[s].pc = "find"
    /\ LET id == reqs[s].id
       IN IF id \notin DOMAIN wounds THEN Respond(s, 404, MsgWoundNotFound)
          ELSE IF TreatmentsOf(id) # {} \/ ImagesOf(id) # {}
          THEN Respond(s, 400, WoundInUse(Cardinality(TreatmentsOf(id)),
                                          Cardinality(ImagesOf(id))))
          ELSE Goto(s, "delete")
    /\ UNCHANGED <<clientVars, now, gateVars, dbVars>>

WoundDeleteDelete ==
  \E s \in Busy :
    /\ reqs[s].op = "woundDelete" /\ reqs[s].pc = "delete"
    /\ LET id == reqs[s].id
       IN IF id \notin DOMAIN wounds
          THEN /\ Respond(s, 500, MsgServerError)
               /\ UNCHANGED dbVars
          ELSE /\ wounds' = Remove(wounds, id)
               /\ images' = CascadeImages(images, id)
               /\ treatments' = SetNullTreatments(treatments, id)
               /\ Respond(s, 200, MsgWoundDeleted)
               /\ UNCHANGED <<users, patients, files, nextId>>
    /\ UNCHANGED <<clientVars, now, gateVars>>

----------------------------------------------------------------------------
(* POST /api/treatments *)

\* verifyToken(request) of '@/lib/auth': the user of the request's token, or null
verifyTokenRequest(tok, t) ==
  LET v == verifyToken(tok, t)
  IN [ok |-> v.ok, threw |-> v.threw, id |-> v.payload.userId]

\* A body: woundId (0: absent), nextScheduled (<<>>: absent, <<d>>: day d)
TreatmentBody(w, n) == [woundId |-> w, nextScheduled |-> n]

\* createTreatmentSchema.parse succeeds
ValidCreateTreatment(b) == b.woundId # 0

\* A status rule that also counts a treatment due right now as overdue
InitialStatusNotAfter(b, t) ==
  IF b.nextScheduled # <<>> /\ b.nextScheduled[1] <= t THEN "OVERDUE" ELSE "SCHEDULED"

\* let status = 'SCHEDULED'; if (data.nextScheduled && scheduledDate < now) 'OVERDUE'
InitialStatus(b, t) ==
  IF b.nextScheduled # <<>> /\ b.nextScheduled[1] < t THEN "OVERDUE" ELSE "SCHEDULED"

TreatmentJson(id, row) == [id |-> id] @@ row

MsgBadToken == Msg("Token invalido ou expirado")
MsgForbidden == Msg("Acesso negado")
MsgTreatmentNotFound == Msg("Tratamento nao encontrado")
MsgTreatmentDeleted == Msg("Tratamento excluido com sucesso")
MsgUnauthorized == Msg("Nao autorizado")

TreatmentsPath == <<"/", "api", "/", "treatments">>
TreatmentIdsAsked == 1..MaxTreatments

TreatmentPostReceive(k, bodies, tokens) ==
  \E b \in bodies, tok \in tokens :
    /\ nextId.treatments + Cardinality({s \in Busy : reqs[s].op = "treatmentPost"})
         < MaxTreatments
    /\ Receive(k, [tok |-> tok, op |-> "treatmentPost", body |-> b, pc |-> "find"])

\* the token, the schema, prisma.wound.findUnique, then the initial status
TreatmentPostFind ==
  \E s \in Busy :
    /\ reqs[s].op = "treatmentPost" /\ reqs[s].pc = "find"
    /\ LET b == reqs[s].body
           user == verifyTokenRequest(reqs[s].tok, now)
       IN IF user.threw THEN Respond(s, 500, MsgServerError)
          ELSE IF ~user.ok THEN Respond(s, 401, MsgBadToken)
          ELSE IF ~ValidCreateTreatment(b) THEN Respond(s, 400, MsgInvalid)
          ELSE IF b.woundId \notin DOMAIN wounds THEN Respond(s, 404, MsgWoundNotFound)
          ELSE reqs' = [reqs EXCEPT ![s] = [@ EXCEPT !.pc = "create"] @@
                                            [ userId |-> user.id,
                                              status |-> InitialStatus(b, now) ]]
               /\ UNCHANGED last
    /\ UNCHANGED <<clientVars, now, gateVars, dbVars>>

\* prisma.treatment.create: the foreign keys of woundId and createdById must hold
TreatmentPostCreate ==
  \E s \in Busy :
    /\ reqs[s].op = "treatmentPost" /\ reqs[s].pc = "create"
    /\ LET id == nextId.treatments + 1
           row == [ status |-> reqs[s].status, woundId |-> reqs[s].body.woundId,
                    createdById |-> reqs[s].userId, completedAt |-> Unset ]
       IN IF row.woundId \notin DOMAIN wounds \/ row.createdById \notin DOMAIN users
          THEN /\ Respond(s, 500, MsgServerError)
               /\ UNCHANGED dbVars
          ELSE /\ treatments' = Put(treatments, id, row)
               /\ nextId' = [nextId EXCEPT !.treatments = id]
               /\ Respond(s, 201, TreatmentJson(id, row))
               /\ UNCHANGED <<users, patients, wounds, images, files>>
    /\ UNCHANGED <<clientVars, now, gateVars>>

----------------------------------------------------------------------------
(* DELETE /api/treatments/{id} *)

TreatmentDeleteReceive(k, clientHdrs) ==
  \E id \in TreatmentIdsAsked, h \in DeliveredHeaders(TreatmentsPath, clientHdrs) :
    Receive(k, [op |-> "treatmentDelete", id |-> id, pc |-> "find", hdr |-> h])

\* the headers, hasPermission(userRole, TREATMENT_DELETE) (a throw is caught by
\* the handler's catch and answered 500), then findUnique
TreatmentDeleteFind ==
  \E s \in Busy :
    /\ reqs[s].op = "treatmentDelete" /\ reqs[s].pc = "find"
    /\ LET h == reqs[s].hdr
       IN IF h.xUserId = "" \/ h.xUserRole = "" THEN Respond(s, 401, MsgBadToken)
          ELSE IF hasPermissionThrows(h.xUserRole, PERMISSIONS.TREATMENT_DELETE)
          THEN Respond(s, 500, MsgServerError)
          ELSE IF ~hasPermission(h.xUserRole, PERMISSIONS.TREATMENT_DELETE)
          THEN Respond(s, 403, MsgForbidden)
          ELSE IF reqs[s].id \notin DOMAIN treatments
          THEN Respond(s, 404, MsgTreatmentNotFound)
          ELSE Goto(s, "delete")
    /\ UNCHANGED <<clientVars, now, gateVars, dbVars>>

TreatmentDeleteDelete ==
  \E s \in Busy :
    /\ reqs[s].op = "treatmentDelete" /\ reqs[s].pc = "delete"
    /\ LET id == reqs[s].id
       IN IF id \notin DOMAIN treatments
          THEN /\ Respond(s, 500, MsgServerError)
               /\ UNCHANGED dbVars
          ELSE /\ treatments' = Remove(treatments, id)
               /\ Respond(s, 200, MsgTreatmentDeleted)
               /\ UNCHANGED <<users, patients, wounds, images, files, nextId>>
    /\ UNCHANGED <<clientVars, now, gateVars>>

----------------------------------------------------------------------------
(* POST /api/images *)

\* A handler that passes the request's token string
RequestAsTokenString(req) == req.tok

\* AuthService.verifyToken(request): the handler passes the request object
\* where the token string belongs; jwt.verify rejects what is not a string
RequestAsToken(req) == Garbage

ImagePostReceive(k, tokens) ==
  \E w \in WoundIdsAsked, tok \in tokens :
    Receive(k, [tok |-> tok, op |-> "imagePost", pc |-> "auth", woundId |-> w])

\* Past the token test the handler reads `session`, which nothing defines
ImagePostAuth ==
  \E s \in Busy :
    /\ reqs[s].op = "imagePost" /\ reqs[s].pc = "auth"
    /\ LET user == verifyToken(RequestAsToken(reqs[s]), now)
       IN IF user.threw THEN Respond(s, 500, MsgServerError)
          ELSE IF ~user.ok THEN Respond(s, 401, MsgUnauthorized)
          ELSE Respond(s, 500, MsgServerError)
    /\ UNCHANGED <<clientVars, now, gateVars, dbVars>>

----------------------------------------------------------------------------
(* The wound service, one request at a time *)

WoundLengths == {Unset, 0, 2, 3}
WoundWidths == {Unset, 2}
WoundAreas == {Unset, 5}

WoundPostBodies ==
  { WoundBody(p, l, w, a) : p \in {1, 2}, l \in WoundLengths, w \in WoundWidths,
                            a \in WoundAreas }
WoundPutBodies ==
  { WoundBody(0, l, w, a) : l \in WoundLengths, w \in WoundWidths, a \in WoundAreas }
\* Payloads that never carry an area
WoundPostBodiesNoArea == {b \in WoundPostBodies : b.area = Unset}
WoundPutBodiesNoArea == {b \in WoundPutBodies : b.area = Unset}

WoundClientHeaders == { NoHdr, Hdr("u2", "NURSE", "nuno@clinic", "Nuno") }

SeedPatients ==
  [p \in {1} |-> [ name |-> NameAl, status |-> "ATIVO", cpf |-> Cpf1, birthDate |-> 1,
                   responsibleId |-> "u1" ]]

\* The store holds one patient and no wound yet
InitWound ==
  /\ now = 0
  /\ InitClient
  /\ gateReq = NoRequest
  /\ gateRes = GateIdle
  /\ users = SeedUsers
  /\ patients = SeedPatients
  /\ wounds = EmptyTable
  /\ treatments = EmptyTable
  /\ images = EmptyTable
  /\ files = {}
  /\ nextId = [NoIds EXCEPT !.patients = 1]
  /\ reqs = [s \in Slots |-> NoSlot]
  /\ last = NoLast

NextWound ==
  \/ WoundPostReceive(1, WoundPostBodies, WoundClientHeaders)
  \/ WoundPostFind
  \/ WoundPostCreate
  \/ WoundPutReceive(1, WoundPutBodies)
  \/ WoundPutFind
  \/ WoundPutUpdate
  \/ WoundDeleteReceive(1, WoundClientHeaders)
  \/ WoundDeleteFind
  \/ WoundDeleteDelete

SpecWound == InitWound /\ [][NextWound]_vars

NextWoundDerived ==
  \/ WoundPostReceive(1, WoundPostBodiesNoArea, WoundClientHeaders)
  \/ WoundPostFind
  \/ WoundPostCreate
  \/ WoundPutReceive(1, WoundPutBodiesNoArea)
  \/ WoundPutFind
  \/ WoundPutUpdate

SpecWoundDerived == InitWound /\ [][NextWoundDerived]_vars

\* C9: a valid POST /api/wounds with both length and width and no area returns
\* a wound whose area is length * width; a supplied area is stored as given;
\* with a dimension missing and no area the area stays unset; when the patient
\* does not exist the answer is 404 and no wound is created.
C9_CreateWoundArea ==
  [][ \A s \in Slots :
        Answers(s, "woundPost") /\ ValidCreateWound(reqs[s].body) =>
          LET b == reqs[s].body
          IN /\ b.patientId \notin DOMAIN patients =>
                  last'.status = 404 /\ wounds' = wounds
             /\ last'.status = 201 =>
                  LET area == last'.body.area
                  IN /\ wounds'[last'.body.id].area = area
                     /\ b.area # Unset => area = b.area
                     /\ (b.area = Unset /\ b.length # Unset /\ b.width # Unset) =>
                          area = b.length * b.width
                     /\ (b.area = Unset /\ (b.length = Unset \/ b.width = Unset)) =>
                          area = Unset
    ]_vars

\* A wound was created from a payload with both dimensions and no area
C9_Witness ==
  /\ last.op = "woundPost"
  /\ last.status = 201
  /\ last.req.body.area = Unset
  /\ last.req.body.length = 3
  /\ last.req.body.width = 2
  /\ last.body.area = 6

\* C10: after any sequence of wound creates and PUTs whose payloads carry no
\* area, every stored wound with a length and a width has area = length * width,
\* and a PUT leaves every field its payload omits as it was.
C10_AreaFollowsDimensions ==
  /\ [](\A w \in DOMAIN wounds :
          (wounds[w].length # Unset /\ wounds[w].width # Unset) =>
            wounds[w].area = wounds[w].length * wounds[w].width)
  /\ [][ \A s \in Slots :
           (Answers(s, "woundPut") /\ last'.status = 200) =>
             LET b == reqs[s].body
                 id == reqs[s].id
             IN /\ b.length = Unset => wounds'[id].length = wounds[id].length
                /\ b.width = Unset => wounds'[id].width = wounds[id].width
                /\ wounds'[id].patientId = wounds[id].patientId
                /\ wounds'[id].status = wounds[id].status
       ]_vars

----------------------------------------------------------------------------
(* Wounds and their dependents, one request at a time *)

CareClientHeaders ==
  { NoHdr, Hdr("u1", "ADMIN", "ana@clinic", "Ana"), Hdr("u2", "NURSE", "nuno@clinic", "Nuno") }

CareTokens ==
  { NoToken, generateToken(ClaimsOf("u1"), 0), generateToken(ClaimsOf("u2"), OldIssue),
    Jwt(ClaimsOf("u1"), OtherSecret, AccessTtlDays) }

SeedWound(l, w) ==
  [ status |-> "ACTIVE", patientId |-> 1, length |-> l, width |-> w, area |-> l * w,
    type |-> "OTHER", location |-> LocHeel, createdById |-> "u1" ]
SeedWounds == [w \in 1..MaxWounds |-> SeedWound(2, w)]
\* Every seeded treatment is of wound 1
SeedTreatments ==
  [t \in 1..MaxTreatments |-> [ status |-> "SCHEDULED", woundId |-> 1, createdById |-> "u1",
                              completedAt |-> Unset ]]

\* The store holds one patient, MaxWounds wounds and the treatments of wound 1
InitCare ==
  /\ now = 0
  /\ InitClient
  /\ gateReq = NoRequest
  /\ gateRes = GateIdle
  /\ users = SeedUsers
  /\ patients = SeedPatients
  /\ wounds = SeedWounds
  /\ treatments = SeedTreatments
  /\ images = EmptyTable
  /\ files = {}
  /\ nextId = [NoIds EXCEPT !.patients = 1, !.wounds = MaxWounds,
                            !.treatments = MaxTreatments]
  /\ reqs = [s \in Slots |-> NoSlot]
  /\ last = NoLast

NextCare ==
  \/ WoundDeleteReceive(1, CareClientHeaders)
  \/ WoundDeleteFind
  \/ WoundDeleteDelete
  \/ TreatmentDeleteReceive(1, CareClientHeaders)
  \/ TreatmentDeleteFind
  \/ TreatmentDeleteDelete
  \/ ImagePostReceive(1, CareTokens)
  \/ ImagePostAuth

SpecCare == InitCare /\ [][NextCare]_vars

(* The same wounds with MaxInflight requests in flight *)

CareRaceHeaders == { Hdr("u1", "ADMIN", "ana@clinic", "Ana") }
CareRaceTokens == { NoToken, generateToken(ClaimsOf("u1"), 0) }
TreatmentRaceBodies ==
  { TreatmentBody(w, n) : w \in 0..(MaxWounds + 1), n \in {<<>>, <<0 - 1>>} }

\* The store holds one patient and MaxWounds wounds without dependents
InitCareRace ==
  /\ now = 0
  /\ InitClient
  /\ gateReq = NoRequest
  /\ gateRes = GateIdle
  /\ users = SeedUsers
  /\ patients = SeedPatients
  /\ wounds = SeedWounds
  /\ treatments = EmptyTable
  /\ images = EmptyTable
  /\ files = {}
  /\ nextId = [NoIds EXCEPT !.patients = 1, !.wounds = MaxWounds]
  /\ reqs = [s \in Slots |-> NoSlot]
  /\ last = NoLast

NextCareRace ==
  \/ WoundDeleteReceive(MaxInflight, CareRaceHeaders)
  \/ WoundDeleteFind
  \/ WoundDeleteDelete
  \/ TreatmentPostReceive(MaxInflight, TreatmentRaceBodies, CareRaceTokens)
  \/ TreatmentPostFind
  \/ TreatmentPostCreate
  \/ ImagePostReceive(MaxInflight, CareRaceTokens)
  \/ ImagePostAuth

SpecCareRace == InitCareRace /\ [][NextCareRace]_vars

\* C3: a record operation runs only when hasPermission(role, permission) holds;
\* a caller whose role lacks the permission is refused (403, or 401 without a
\* role) and the database is left unchanged.
C3_RecordOpsNeedPermission ==
  [][ \A s \in Slots :
        /\ ( /\ Answers(s, "woundDelete")
             /\ ~hasPermission(reqs[s].hdr.xUserRole, PERMISSIONS.WOUND_DELETE) ) =>
             last'.status \in {401, 403} /\ UNCHANGED dbVars
        /\ ( /\ Answers(s, "treatmentDelete")
             /\ ~hasPermission(reqs[s].hdr.xUserRole, PERMISSIONS.TREATMENT_DELETE) ) =>
             last'.status \in {401, 403} /\ UNCHANGED dbVars
    ]_vars

\* C4: DELETE /api/wounds/{id} deletes a wound without treatments and images and
\* returns 200; with a treatment or an image it returns 409 with the counts and
\* changes nothing; for an unknown id it returns 404 and changes nothing.
C4_DeleteWoundContract ==
  [][ \A s \in Slots :
        Answers(s, "woundDelete") =>
          LET id == reqs[s].id
          IN IF id \notin DOMAIN wounds
             THEN last'.status = 404 /\ UNCHANGED dbVars
             ELSE IF TreatmentsOf(id) # {} \/ ImagesOf(id) # {}
             THEN /\ last'.status = 409
                  /\ last'.body = WoundInUse(Cardinality(TreatmentsOf(id)),
                                             Cardinality(ImagesOf(id)))
                  /\ UNCHANGED dbVars
             ELSE /\ last'.status = 200
                  /\ id \notin DOMAIN wounds'
    ]_vars

\* C5: under any interleaving of a wound DELETE with treatment or image creation
\* for the same wound, no treatment is left with a null or dangling woundId and
\* no image is removed by the delete of a wound.
C5_NoDependentLosesItsWound ==
  /\ [](\A t \in DOMAIN treatments : treatments[t].woundId \in DOMAIN wounds)
  /\ [](\A i \in DOMAIN images : images[i].woundId \in DOMAIN wounds)
  /\ [][ \A s \in Slots : Answers(s, "woundDelete") => DOMAIN images' = DOMAIN images ]_vars

----------------------------------------------------------------------------
(* lib/auth as pure functions: each step is one call, recorded in `last` *)

\* Roles a caller can present: the table's, none, a misspelling, an inherited key
RolesAsked == Roles \cup {"", "nurse", "constructor"}
PermissionsAsked == AllPermissions \cup {"patient:purge"}

HasPermissionCall ==
  \E r \in RolesAsked, p \in PermissionsAsked :
    /\ last' = [ role |-> r, permission |-> p, op |-> "hasPermission",
                 outcome |-> hasPermissionOutcome(r, p) ]
    /\ UNCHANGED <<clientVars, now, gateVars, dbVars, reqs>>

NextPermission == HasPermissionCall

SpecPermission == InitService /\ [][NextPermission]_vars

\* C11: hasPermission(role, permission) is true exactly when permission is in
\* ROLE_PERMISSIONS[role]; for every role, a role absent from the table
\* included, it returns a boolean without throwing, false for an unknown role,
\* and equal inputs give equal results.
C11_HasPermissionTotal ==
  /\ [](last.op = "hasPermission" =>
          /\ last.outcome \in {"true", "false"}
          /\ last.outcome = "true" <=>
               ( /\ last.role \in DOMAIN ROLE_PERMISSIONS
                 /\ last.permission \in ROLE_PERMISSIONS[last.role] ))
  /\ [][ ( /\ last.op = "hasPermission" /\ last'.op = "hasPermission"
           /\ last'.role = last.role /\ last'.permission = last.permission ) =>
           last'.outcome = last.outcome ]_vars

\* Permissions only an administrator may hold
AdminOnlyPermissions ==
  { PERMISSIONS.PATIENT_DELETE, PERMISSIONS.WOUND_DELETE, PERMISSIONS.TREATMENT_DELETE,
    PERMISSIONS.USER_MANAGE, PERMISSIONS.SYSTEM_CONFIG }

\* C12: ADMIN is granted every permission of PERMISSIONS and no other role is
\* granted a delete permission, user:manage or system:config, in every
\* reachable state.
C12_AdminOnlyDeletes ==
  /\ ROLE_PERMISSIONS["ADMIN"] = AllPermissions
  /\ \A r \in DOMAIN ROLE_PERMISSIONS \ {"ADMIN"} :
       ROLE_PERMISSIONS[r] \cap AdminOnlyPermissions = {}
  /\ last.op = "hasPermission" =>
       /\ (last.role = "ADMIN" /\ last.permission \in AllPermissions) =>
            last.outcome = "true"
       /\ (last.role # "ADMIN" /\ last.permission \in AdminOnlyPermissions) =>
            last.outcome # "true"

\* A nurse asked for wound:delete and was denied
C12_Witness ==
  /\ last.op = "hasPermission"
  /\ last.role = "NURSE"
  /\ last.permission = PERMISSIONS.WOUND_DELETE
  /\ last.outcome = "false"

----------------------------------------------------------------------------
(* Tokens: issue, possibly alter, verify *)

\* Days before the clock starts at which a token may have been issued
MaxTokenAge == 8
IssueTimes == (0 - MaxTokenAge)..0

ClaimsAsked == { ClaimsOf("u1"), ClaimsOf("u2"), Claims("u9", "", "PATIENT", "") }

\* What a holder may do to a token before presenting it
Alterations == {"none", "role", "exp", "resign"}
Alter(tok, how) ==
  CASE how = "none" -> tok
    [] how = "role" -> [tok EXCEPT !.payload.role = "ADMIN", !.payload.userId = "u0"]
    [] how = "exp" -> [tok EXCEPT !.exp = @ + AccessTtlDays]
    [] how = "resign" -> Jwt(tok.payload, OtherSecret, tok.exp)

VerifyTokenCall ==
  \E c \in ClaimsAsked, ti \in IssueTimes, how \in Alterations :
    /\ last' = [ at |-> now, op |-> "verifyToken", how |-> how, claims |-> c,
                 issuedAt |-> ti, result |-> verifyToken(Alter(generateToken(c, ti), how), now) ]
    /\ UNCHANGED <<clientVars, now, gateVars, dbVars, reqs>>

NextToken == Tick \/ VerifyTokenCall

SpecToken == InitService /\ [][NextToken]_vars

\* C13: verifyToken(generateToken(claims)) returns the claims at every time
\* before the 7-day expiry and no claims at every time after it; an altered
\* token or one signed with another secret is never accepted.
C13_TokenRoundTrip ==
  last.op = "verifyToken" =>
    IF last.how = "none"
    THEN /\ last.at < last.issuedAt + AccessTtlDays =>
              last.result.ok /\ last.result.payload = last.claims
         /\ last.at > last.issuedAt + AccessTtlDays => ~last.result.ok
    ELSE ~last.result.ok

\* An unaltered token was refused after its expiry
C13_Witness ==
  /\ last.op = "verifyToken"
  /\ last.how = "none"
  /\ last.at > last.issuedAt + AccessTtlDays
  /\ ~last.result.ok

----------------------------------------------------------------------------
(* Handlers that verify a token themselves *)

\* DELETE /api/treatments/{id} of the revision that calls
\* AuthService.verifyToken(request); one request at a time, start to answer
TreatmentDeleteV2(tokens) ==
  \E id \in TreatmentIdsAsked, tok \in tokens :
    /\ Busy = {}
    /\ LET r == [tok |-> tok, op |-> "treatmentDeleteV2", id |-> id, pc |-> "auth"]
           user == verifyToken(RequestAsToken(r), now)
           answer(status, body) ==
             last' = [status |-> status, req |-> r, op |-> r.op, body |-> body]
       IN IF user.threw THEN answer(500, MsgServerError) /\ UNCHANGED dbVars
          ELSE IF ~user.ok THEN answer(401, MsgBadToken) /\ UNCHANGED dbVars
          ELSE IF id \notin DOMAIN treatments
          THEN answer(404, MsgTreatmentNotFound) /\ UNCHANGED dbVars
          ELSE /\ treatments' = Remove(treatments, id)
               /\ answer(200, MsgTreatmentDeleted)
               /\ UNCHANGED <<users, patients, wounds, images, files, nextId>>
    /\ UNCHANGED <<clientVars, now, gateVars, reqs>>

\* Tokens that must not verify at day 0, and two that do
BadTokens ==
  { NoToken, Garbage, Jwt(ClaimsOf("u1"), OtherSecret, AccessTtlDays),
    generateToken(ClaimsOf("u2"), 0 - AccessTtlDays),
    Alter(generateToken(ClaimsOf("u2"), 0), "role") }
VerifyTokens == BadTokens \cup {generateToken(ClaimsOf("u1"), 0), generateRefreshToken("u2", 0)}

\* AuthService.verifyToken called on its own
VerifyRawCall ==
  \E tok \in VerifyTokens :
    /\ Busy = {}
    /\ last' = [tok |-> tok, op |-> "verifyRaw", result |-> verifyToken(tok, now)]
    /\ UNCHANGED <<clientVars, now, gateVars, dbVars, reqs>>

VerifyBodies == { TreatmentBody(w, <<>>) : w \in 0..1 }

NextVerify ==
  \/ VerifyRawCall
  \/ TreatmentPostReceive(1, VerifyBodies, VerifyTokens)
  \/ TreatmentPostFind
  \/ TreatmentPostCreate
  \/ TreatmentDeleteV2(VerifyTokens)
  \/ ImagePostReceive(1, VerifyTokens)
  \/ ImagePostAuth

SpecVerify == InitCareRace /\ [][NextVerify]_vars

----------------------------------------------------------------------------
(* GET /api/patients: the paginated list *)

\* parseInt of a query value; NaN for text without leading digits
NaN == 0 - 1000
ParseInt(str) ==
  CASE str = "0" -> 0
    [] str = "1" -> 1
    [] str = "2" -> 2
    [] str = "3" -> 3
    [] str = "10" -> 10
    [] OTHER -> NaN

\* searchParams.get(name) || fallback: an absent or empty value is the fallback
OrDefault(str, fallback) == IF str = "" THEN fallback ELSE str

\* Math.ceil(total / limit) as JSON writes it: null (Unset) for Infinity and NaN
CeilDiv(total, limit) ==
  IF limit = 0 THEN Unset ELSE (total + limit - 1) \div limit

\* findMany({ skip, take }): Prisma rejects NaN and a negative skip
FindManyFails(skip, take) == skip < 0 \/ take = NaN

\* The rows of page `skip`/`take` of a table in its order
PageOf(ids, skip, take) ==
  {i \in ids : Cardinality({j \in ids : j > i}) >= skip
               /\ Cardinality({j \in ids : j > i}) < skip + take}

PageValues == {"", "1", "2", "3", "0", "x"}
LimitValues == {"", "1", "2", "0"}

\* The whole handler: it reads twice and writes nothing
PatientListGet ==
  \E p \in PageValues, l \in LimitValues :
    /\ Busy = {}
    /\ LET r == [op |-> "patientList", limit |-> l, page |-> p]
           page == ParseInt(OrDefault(p, "1"))
           limit == ParseInt(OrDefault(l, "10"))
           skip == (page - 1) * limit
           total == Cardinality(DOMAIN patients)
       IN IF page = NaN \/ FindManyFails(skip, limit)
          THEN last' = [status |-> 500, req |-> r, op |-> r.op, body |-> MsgServerError]
          ELSE last' = [ status |-> 200, req |-> r, op |-> r.op,
                         body |-> [ patients |-> PageOf(DOMAIN patients, skip, limit),
                                    total |-> total, limit |-> limit, page |-> page,
                                    pages |-> CeilDiv(total, limit) ] ]
    /\ UNCHANGED <<clientVars, now, gateVars, dbVars, reqs>>

ListBodies == { PatientBody(NameAl, c, "1990-05-17") : c \in {Cpf1, Cpf2} }

NextPatientList ==
  \/ PatientPostReceive(1, ListBodies, PatientRaceHeaders)
  \/ PatientPostFind
  \/ PatientPostCreate
  \/ PatientListGet

SpecPatientList == InitService /\ [][NextPatientList]_vars

\* C15: in every response of a paginated list, for every page and limit the
\* handler accepts, page * limit never exceeds total + limit and pages equals
\* ceil(total / limit).
C15_PageWithinTotal ==
  (last.op = "patientList" /\ last.status = 200) =>
    /\ last.body.page * last.body.limit <= last.body.total + last.body.limit
    /\ last.body.limit > 0
    /\ last.body.pages * last.body.limit >= last.body.total
    /\ (last.body.pages - 1) * last.body.limit < last.body.total \/ last.body.total = 0

----------------------------------------------------------------------------
(* DELETE /api/images/{id} *)

MaxImages == 2

ImagesPath == <<"/", "api", "/", "images">>
ImageIdsAsked == 1..MaxImages

MsgImageNotFound == Msg("Imagem nao encontrada")
MsgImageDeleted == Msg("Imagem excluida com sucesso")

\* findFirst({ id, wound: { patient: { responsibleId: userId } } }) finds a row
ImageAccessible(id, userId) ==
  /\ id \in DOMAIN images
  /\ images[id].woundId \in DOMAIN wounds
  /\ wounds[images[id].woundId].patientId \in DOMAIN patients
  /\ patients[wounds[images[id].woundId].patientId].responsibleId = userId

ImageDeleteReceive(k, clientHdrs) ==
  \E id \in ImageIdsAsked, h \in DeliveredHeaders(ImagesPath, clientHdrs) :
    Receive(k, [ op |-> "imageDelete", id |-> id, pc |-> "find", hdr |-> h,
                 url |-> 0, wroteFile |-> FALSE ])

\* the x-user-id test, then findFirst
ImageDeleteFind ==
  \E s \in Busy :
    /\ reqs[s].op = "imageDelete" /\ reqs[s].pc = "find"
    /\ LET id == reqs[s].id
           userId == reqs[s].hdr.xUserId
       IN IF userId = "" THEN Respond(s, 401, MsgUnauthorized)
          ELSE IF ~ImageAccessible(id, userId) THEN Respond(s, 404, MsgImageNotFound)
          ELSE reqs' = [reqs EXCEPT ![s].pc = "unlink", ![s].url = images[id].url]
               /\ UNCHANGED last
    /\ UNCHANGED <<clientVars, now, gateVars, dbVars>>

\* A handler for which a failed unlink is fatal: it answers 500
ImageDeleteUnlinkFatal ==
  \E s \in Busy, unlinked \in BOOLEAN :
    /\ reqs[s].op = "imageDelete" /\ reqs[s].pc = "unlink"
    /\ IF reqs[s].url \in files /\ unlinked
       THEN /\ files' = files \ {reqs[s].url}
            /\ reqs' = [reqs EXCEPT ![s].pc = "delete", ![s].wroteFile = TRUE]
            /\ UNCHANGED last
       ELSE /\ files' = files
            /\ Respond(s, 500, MsgServerError)
    /\ UNCHANGED <<clientVars, now, gateVars, users, patients, wounds, treatments, images, nextId>>

\* try { if (existsSync(filePath)) await unlink(filePath) } catch { log }:
\* unlink may fail, and the handler goes on either way
ImageDeleteUnlink ==
  \E s \in Busy, unlinked \in BOOLEAN :
    /\ reqs[s].op = "imageDelete" /\ reqs[s].pc = "unlink"
    /\ IF reqs[s].url \in files /\ unlinked
       THEN /\ files' = files \ {reqs[s].url}
            /\ reqs' = [reqs EXCEPT ![s].pc = "delete", ![s].wroteFile = TRUE]
       ELSE /\ files' = files
            /\ reqs' = [reqs EXCEPT ![s].pc = "delete"]
    /\ UNCHANGED <<clientVars, now, gateVars, users, patients, wounds, treatments, images, nextId, last>>

\* prisma.woundImage.delete: throws when the row is no longer there
ImageDeleteDelete ==
  \E s \in Busy :
    /\ reqs[s].op = "imageDelete" /\ reqs[s].pc = "delete"
    /\ LET id == reqs[s].id
       IN IF id \notin DOMAIN images
          THEN /\ Respond(s, 500, MsgServerError)
               /\ UNCHANGED dbVars
          ELSE /\ images' = Remove(images, id)
               /\ Respond(s, 200, MsgImageDeleted)
               /\ UNCHANGED <<users, patients, wounds, treatments, files, nextId>>
    /\ UNCHANGED <<clientVars, now, gateVars>>

----------------------------------------------------------------------------
(* Stored images and their files *)

\* Image i is of wound 1 and its file is at url i
SeedImages == [i \in 1..MaxImages |-> [woundId |-> 1, url |-> i, description |-> ""]]

ImageClientHeaders ==
  { NoHdr, Hdr("u1", "ADMIN", "ana@clinic", "Ana"), Hdr("u2", "NURSE", "nuno@clinic", "Nuno") }

\* One patient of u1, one wound, MaxImages images; the files of some of them
\* are on disk
InitImages ==
  /\ now = 0
  /\ InitClient
  /\ gateReq = NoRequest
  /\ gateRes = GateIdle
  /\ users = SeedUsers
  /\ patients = SeedPatients
  /\ wounds = [w \in {1} |-> SeedWound(2, 1)]
  /\ treatments = EmptyTable
  /\ images = SeedImages
  /\ files \in SUBSET {SeedImages[i].url : i \in DOMAIN SeedImages}
  /\ nextId = [NoIds EXCEPT !.patients = 1, !.wounds = 1, !.images = MaxImages]
  /\ reqs = [s \in Slots |-> NoSlot]
  /\ last = NoLast

RecordWoundBodies == { WoundBody(p, 2, 3, Unset) : p \in {1, 2} }
RecordTokens == { NoToken, generateToken(ClaimsOf("u1"), 0) }

NextRecordWrites ==
  \/ ImageDeleteReceive(MaxInflight, ImageClientHeaders)
  \/ ImageDeleteFind
  \/ ImageDeleteUnlink
  \/ ImageDeleteDelete
  \/ ImagePostReceive(MaxInflight, RecordTokens)
  \/ ImagePostAuth
  \/ WoundPostReceive(MaxInflight, RecordWoundBodies, ImageClientHeaders)
  \/ WoundPostFind
  \/ WoundPostCreate

SpecRecordWrites == InitImages /\ [][NextRecordWrites]_vars

\* The rows of every table
Tables == <<users, patients, wounds, treatments, images>>
\* The request of slot s has removed a file
WroteFile(s) == reqs[s].op = "imageDelete" /\ reqs[s].wroteFile
\* Slot s answers in this step
AnswersNow(s) == reqs[s] # NoSlot /\ reqs'[s] = NoSlot

\* C16: a record-service request performs at most one persistent write (rows
\* change only in the step that answers), and none when it answers with an
\* error status: after a 4xx or 5xx the request has changed no row and no file.
C16_ErrorsWriteNothing ==
  [][ /\ Tables' # Tables => \E s \in Slots : AnswersNow(s)
      /\ \A s \in Slots :
           (AnswersNow(s) /\ last'.status >= 400) =>
             /\ Tables' = Tables
             /\ files' = files
             /\ ~WroteFile(s)
    ]_vars

(* Image deletes, one request at a time *)

NextImageDelete ==
  \/ ImageDeleteReceive(1, ImageClientHeaders)
  \/ ImageDeleteFind
  \/ ImageDeleteUnlink
  \/ ImageDeleteDelete

SpecImageDelete == InitImages /\ [][NextImageDelete]_vars

\* C17: DELETE /api/images/{id} for an image the caller may access removes the
\* record and returns success even when the file's removal fails or the file is
\* missing; when the removal succeeds file and record are both gone, so no
\* stored record points to a file the handler removed.
C17_ImageDeleteBestEffort ==
  /\ [][ \A s \in Slots :
           ( /\ Answers(s, "imageDelete")
             /\ ImageAccessible(reqs[s].id, reqs[s].hdr.xUserId) ) =>
             /\ last'.status = 200
             /\ reqs[s].id \notin DOMAIN images'
             /\ reqs[s].wroteFile => reqs[s].url \notin files'
       ]_vars
  /\ []( (Busy = {} /\ last.op = "imageDelete" /\ last.req.wroteFile) =>
           \A i \in DOMAIN images : images[i].url # last.req.url )

\* An image was deleted although the unlink of its file failed
C17_Witness ==
  /\ last.op = "imageDelete"
  /\ last.status = 200
  /\ ~last.req.wroteFile
  /\ last.req.url \in files
  /\ last.req.id \notin DOMAIN images

----------------------------------------------------------------------------
(* Who a created record names as its creator *)

\* The identity the request's token proves, "" when it proves none
VerifiedCaller(req, t) ==
  LET v == verifyToken(RequestToken(req), t)
  IN IF v.ok THEN v.payload.userId ELSE ""

CreatorTokens == { NoToken, generateToken(ClaimsOf("u2"), 0) }
CreatorHeaders ==
  { NoHdr, Hdr("u1", "ADMIN", "ana@clinic", "Ana"), Hdr("u2", "NURSE", "nuno@clinic", "Nuno") }
CreatorPatientBodies == { PatientBody(NameAl, Cpf2, "1990-05-17") }
CreatorWoundBodies == { WoundBody(1, 2, 3, Unset) }

\* A client sends a request through either gate file; the handler runs when
\* the gate lets it through, with the headers the gate forwards.
SendThroughGate(k, path, r) ==
  \E g \in Gates, c \in CreatorTokens, h \in CreatorHeaders :
    LET req == Request(path, c, NoToken, h)
        o == RunGate(g, req, now)
    IN /\ o.kind = "next"
       /\ Receive(k, r @@ [hdr |-> o.headers, caller |-> VerifiedCaller(req, now)])

PatientPostSend ==
  \E b \in CreatorPatientBodies :
    /\ nextId.patients < MaxPatients
    /\ SendThroughGate(1, PatientsPath, [op |-> "patientPost", body |-> b, pc |-> "find"])

WoundPostSend ==
  \E b \in CreatorWoundBodies :
    /\ nextId.wounds < MaxWounds
    /\ SendThroughGate(1, WoundsPath, [op |-> "woundPost", body |-> b, pc |-> "find"])

NextCreator ==
  \/ PatientPostSend
  \/ PatientPostFind
  \/ PatientPostCreate
  \/ WoundPostSend
  \/ WoundPostFind
  \/ WoundPostCreate

SpecCreator == InitWound /\ [][NextCreator]_vars

\* C18: every record created through the API names as its creator the
\* authenticated user who made the request: a 201 is answered only to a caller
\* whose token verified, and the stored creator id is that caller's.
C18_CreatorIsCaller ==
  /\ (last.op = "patientPost" /\ last.status = 201) =>
       /\ last.req.caller # ""
       /\ patients[last.body.id].responsibleId = last.req.caller
  /\ (last.op = "woundPost" /\ last.status = 201) =>
       /\ last.req.caller # ""
       /\ wounds[last.body.id].createdById = last.req.caller

----------------------------------------------------------------------------
(* POST /api/auth/login *)

\* z.string().email(): one "@" after a non-empty local part, then labels
\* separated by dots, none empty, the last of two characters or more
AtPositions(e) == {i \in 1..Len(e) : e[i] = "@"}
IsEmail(e) ==
  /\ Cardinality(AtPositions(e)) = 1
  /\ LET a == CHOOSE i \in AtPositions(e) : TRUE
         dots == {i \in (a + 1)..Len(e) : e[i] = "."}
     IN /\ a > 1
        /\ dots # {}
        /\ \A i \in dots : i > a + 1 /\ i < Len(e) /\ (i + 1) \notin dots
        /\ \E d \in dots : (\A i \in dots : i <= d) /\ Len(e) - d >= 2

MinPasswordLen == 6

\* A request body: text that is not JSON, or an object with the two fields
NotJson == [email |-> <<>>, json |-> FALSE, password |-> <<>>]
LoginBody(e, p) == [email |-> e, json |-> TRUE, password |-> p]

\* loginSchema.parse
ValidLogin(b) == IsEmail(b.email) /\ Len(b.password) >= MinPasswordLen

\* bcrypt.hash keeps the salt beside the digest; bcrypt.compare hashes the
\* candidate with the stored salt and compares the digests
bcryptHash(pw, salt) == [salt |-> salt, digest |-> <<salt, pw>>]
comparePassword(pw, hashed) == hashed.digest = <<hashed.salt, pw>>

\* prisma.user.findUnique({ where: { email } }): the ids of the matching rows
\* (users_email_key admits one at most)
UsersByEmail(tbl, e) == {u \in DOMAIN tbl : tbl[u].email = e}

Cookie(v, age) == [value |-> v, httpOnly |-> TRUE, maxAge |-> age]
NoCookie == [value |-> NoToken, httpOnly |-> FALSE, maxAge |-> 0]
NoCookies == [authToken |-> NoCookie, refreshToken |-> NoCookie]

MsgBadCredentials == [error |-> "Credenciais invalidas"]
MsgDeactivated == [error |-> "Conta desativada"]
MsgLoginInvalid == [error |-> "Dados invalidos"]
MsgLoginError == [error |-> "Erro interno do servidor"]

\* NextResponse.json(body, { status }) with the cookies set on it
RespondLogin(s, status, body, cookies) ==
  /\ last' = [status |-> status, req |-> reqs[s], op |-> reqs[s].op, body |-> body,
              cookies |-> cookies]
  /\ reqs' = [reqs EXCEPT ![s] = NoSlot]

LoginReceive(k, bodies) ==
  \E b \in bodies : Receive(k, [op |-> "login", body |-> b, pc |-> "find"])

\* request.json(), loginSchema.parse, findUnique, the isActive test,
\* comparePassword, then the two tokens are signed
LoginFind ==
  \E s \in Busy :
    /\ reqs[s].op = "login" /\ reqs[s].pc = "find"
    /\ LET b == reqs[s].body
           found == UsersByEmail(users, b.email)
       IN IF ~b.json THEN RespondLogin(s, 500, MsgLoginError, NoCookies)
          ELSE IF ~ValidLogin(b) THEN RespondLogin(s, 400, MsgLoginInvalid, NoCookies)
          ELSE IF found = {} THEN RespondLogin(s, 401, MsgBadCredentials, NoCookies)
          ELSE LET u == CHOOSE x \in found : TRUE
               IN IF ~users[u].isActive
                  THEN RespondLogin(s, 401, MsgDeactivated, NoCookies)
                  ELSE IF ~comparePassword(b.password, users[u].password)
                  THEN RespondLogin(s, 401, MsgBadCredentials, NoCookies)
                  ELSE /\ reqs' = [reqs EXCEPT ![s] =
                             [ op |-> "login", body |-> b, pc |-> "update", user |-> u,
                               refreshToken |-> generateRefreshToken(u, now),
                               accessToken |->
                                 generateToken(Claims(u, users[u].email, users[u].role,
                                                      users[u].name), now) ]]
                       /\ UNCHANGED last
    /\ UNCHANGED <<clientVars, now, gateVars, dbVars>>

\* prisma.user.update({ data: { lastLogin: new Date() } }), then the response
\* with both cookies
LoginUpdate ==
  \E s \in Busy :
    /\ reqs[s].op = "login" /\ reqs[s].pc = "update"
    /\ LET u == reqs[s].user
       IN IF u \notin DOMAIN users
          THEN /\ RespondLogin(s, 500, MsgLoginError, NoCookies)
               /\ UNCHANGED dbVars
          ELSE /\ users' = [users EXCEPT ![u].lastLogin = now]
               /\ RespondLogin(s, 200,
                    [ message |-> "Login realizado com sucesso",
                      user |-> [email |-> users[u].email, role |-> users[u].role, name |-> users[u].name,
                                id |-> u],
                      accessToken |-> reqs[s].accessToken ],
                    [ authToken |-> Cookie(reqs[s].accessToken, AccessTtlDays),
                      refreshToken |-> Cookie(reqs[s].refreshToken, RefreshTtlDays) ])
               /\ UNCHANGED <<patients, wounds, treatments, images, files, nextId>>
    /\ UNCHANGED <<clientVars, now, gateVars>>

EmailAna == <<"a", "@", "c", ".", "i", "o">>
EmailIvo == <<"i", "@", "c", ".", "i", "o">>
EmailEve == <<"e", "@", "c", ".", "i", "o">>
EmailNoAt == <<"a", "c", ".", "i", "o">>
PasswordAna == Str(MinPasswordLen, "p")
PasswordIvo == Str(MinPasswordLen, "q")
PasswordShort == Str(MinPasswordLen - 1, "p")

LoginUser(e, r, n, a, pw, salt) ==
  [ email |-> e, role |-> r, name |-> n, isActive |-> a, password |-> bcryptHash(pw, salt),
    lastLogin |-> Unset ]

\* An active account and a deactivated one
LoginUsers ==
  [ u1 |-> LoginUser(EmailAna, "ADMIN", "Ana", TRUE, PasswordAna, "s1"),
    u3 |-> LoginUser(EmailIvo, "NURSE", "Ivo", FALSE, PasswordIvo, "s3") ]

LoginBodies ==
  {NotJson} \cup
  { LoginBody(e, p) : e \in {EmailAna, EmailIvo, EmailEve, EmailNoAt},
                      p \in {PasswordAna, PasswordIvo, PasswordShort} }

InitLogin ==
  /\ now = 0
  /\ InitClient
  /\ gateReq = NoRequest
  /\ gateRes = GateIdle
  /\ users = LoginUsers
  /\ patients = EmptyTable
  /\ wounds = EmptyTable
  /\ treatments = EmptyTable
  /\ images = EmptyTable
  /\ files = {}
  /\ nextId = NoIds
  /\ reqs = [s \in 1..MaxInflight |-> NoSlot]
  /\ last = NoLast

NextLogin == Tick \/ LoginReceive(1, LoginBodies) \/ LoginFind \/ LoginUpdate

SpecLogin == InitLogin /\ [][NextLogin]_vars

\* The credentials of body b are those of an existing, active user of tbl
CredentialsOk(tbl, b) ==
  /\ b.json /\ ValidLogin(b)
  /\ \E u \in UsersByEmail(tbl, b.email) :
       tbl[u].isActive /\ comparePassword(b.password, tbl[u].password)

\* C19: POST /api/auth/login sets the httpOnly auth-token and refresh-token
\* cookies and updates lastLogin only when the email is an existing, active
\* user's and the password matches the stored hash; in every other case it
\* answers 401 (400 for malformed input), sets no cookie and writes nothing.
C19_LoginOnlyWithCredentials ==
  [][ \A s \in Slots :
        reqs[s].op = "login" =>
          /\ dbVars' # dbVars => Answers(s, "login") /\ last'.status = 200
          /\ Answers(s, "login") =>
               LET b == reqs[s].body
               IN IF CredentialsOk(users, b)
                  THEN /\ last'.status = 200
                       /\ last'.cookies.authToken.httpOnly
                       /\ last'.cookies.refreshToken.httpOnly
                       /\ verifyToken(last'.cookies.authToken.value, now).ok
                       /\ \E u \in UsersByEmail(users, b.email) : users'[u].lastLogin = now
                  ELSE /\ last'.status = IF b.json /\ ValidLogin(b) THEN 401 ELSE 400
                       /\ last'.cookies = NoCookies
                       /\ dbVars' = dbVars ]_vars

----------------------------------------------------------------------------
(* Discharging a patient who has wounds, treatments and images *)

InitDischarge ==
  /\ now = 0
  /\ InitClient
  /\ gateReq = NoRequest
  /\ gateRes = GateIdle
  /\ users = SeedUsers
  /\ patients = SeedPatients
  /\ wounds = SeedWounds
  /\ treatments = SeedTreatments
  /\ images = SeedImages
  /\ files = {SeedImages[i].url : i \in DOMAIN SeedImages}
  /\ nextId = [patients |-> 1, wounds |-> MaxWounds, treatments |-> MaxTreatments,
               images |-> MaxImages]
  /\ reqs = [s \in Slots |-> NoSlot]
  /\ last = NoLast

DischargeBodies ==
  { PatientBody(n, c, d) : n \in {NameAl, NameBo}, c \in {Cpf1, Cpf2},
                           d \in {"1990-05-17", "soon"} }

NextDischarge ==
  \/ PatientPostReceive(1, DischargeBodies, PatientRaceHeaders)
  \/ PatientPostFind
  \/ PatientPostCreate
  \/ PatientGetReceive(1)
  \/ PatientGetFind
  \/ PatientDeleteReceive(1)
  \/ PatientDeleteFind
  \/ PatientDeleteUpdate

SpecDischarge == InitDischarge /\ [][NextDischarge]_vars

----------------------------------------------------------------------------
(* Either token admits *)

\* One of the two places of the handled request holds a token that verified
\* when the gate handled it
GateEitherTokenOk ==
  \/ verifyToken(gateReq.cookie, gateRes.at).ok
  \/ verifyToken(gateReq.bearer, gateRes.at).ok

----------------------------------------------------------------------------
(* Creating treatments as time passes *)

\* A body that may also carry a status ("": none), which the schema does not list
TreatmentBodyWithStatus(w, n, st) == [status |-> st, woundId |-> w, nextScheduled |-> n]

ScheduleBodies ==
  { TreatmentBodyWithStatus(w, n, st) :
      w \in {0, 1, MaxWounds + 1}, n \in {<<>>, <<0>>, <<1>>, <<2>>},
      st \in {"", "COMPLETED"} }
ScheduleTokens == { generateToken(ClaimsOf("u1"), 0) }

NextSchedule ==
  \/ Tick
  \/ TreatmentPostReceive(1, ScheduleBodies, ScheduleTokens)
  \/ TreatmentPostFind
  \/ TreatmentPostCreate

SpecSchedule == InitCareRace /\ [][NextSchedule]_vars

----------------------------------------------------------------------------
(* PUT /api/treatments/{id} *)

\* A body: status ("": absent), completedAt (<<>>: absent, <<d>>: day d)
TreatmentPutBody(st, c) == [status |-> st, completedAt |-> c]

TreatmentStatuses == {"SCHEDULED", "COMPLETED", "CANCELLED", "OVERDUE"}

\* updateTreatmentSchema.parse of the revision that knows status and completedAt
ValidUpdateTreatment(b) == b.status \in TreatmentStatuses \cup {""}

\* updateData of that revision, applied to the stored row at time t
MergeTreatment(row, b, t) ==
  LET given == IF b.completedAt # <<>> THEN b.completedAt[1] ELSE row.completedAt
      stamped == IF b.status = "COMPLETED" /\ b.completedAt = <<>> THEN t ELSE given
      cleared == IF b.status # "" /\ b.status # "COMPLETED" THEN Unset ELSE stamped
  IN [ row EXCEPT !.status = IF b.status # "" THEN b.status ELSE @,
                  !.completedAt = cleared ]

\* The revision that calls AuthService.verifyToken(request); one request at a
\* time, start to answer
TreatmentPutV2(tokens, bodies) ==
  \E id \in TreatmentIdsAsked, tok \in tokens, b \in bodies :
    /\ Busy = {}
    /\ LET r == [tok |-> tok, op |-> "treatmentPutV2", id |-> id, body |-> b, pc |-> "auth"]
           user == verifyToken(RequestAsToken(r), now)
           answer(status, body) ==
             last' = [status |-> status, req |-> r, op |-> r.op, body |-> body]
       IN IF user.threw THEN answer(500, MsgServerError) /\ UNCHANGED dbVars
          ELSE IF ~user.ok THEN answer(401, MsgBadToken) /\ UNCHANGED dbVars
          ELSE IF id \notin DOMAIN treatments
          THEN answer(404, MsgTreatmentNotFound) /\ UNCHANGED dbVars
          ELSE IF ~ValidUpdateTreatment(b) THEN answer(400, MsgInvalid) /\ UNCHANGED dbVars
          ELSE LET row == MergeTreatment(treatments[id], b, now)
               IN /\ treatments' = Put(treatments, id, row)
                  /\ answer(200, TreatmentJson(id, row))
                  /\ UNCHANGED <<users, patients, wounds, images, files, nextId>>
    /\ UNCHANGED <<clientVars, now, gateVars, reqs>>

\* The revision that reads the x-user-* headers: its schema lists neither status
\* nor completedAt and its updateData holds neither, so the update leaves both
\* columns as they are
TreatmentPutV1(clientHdrs, bodies) ==
  \E id \in TreatmentIdsAsked, h \in DeliveredHeaders(TreatmentsPath, clientHdrs), b \in bodies :
    /\ Busy = {}
    /\ LET r == [op |-> "treatmentPutV1", id |-> id, body |-> b, pc |-> "auth", hdr |-> h]
           answer(status, body) ==
             last' = [status |-> status, req |-> r, op |-> r.op, body |-> body]
       IN IF h.xUserId = "" \/ h.xUserRole = ""
          THEN answer(401, MsgBadToken) /\ UNCHANGED dbVars
          ELSE IF hasPermissionThrows(h.xUserRole, "treatment:update")
          THEN answer(500, MsgServerError) /\ UNCHANGED dbVars
          ELSE IF ~hasPermission(h.xUserRole, "treatment:update")
          THEN answer(403, MsgForbidden) /\ UNCHANGED dbVars
          ELSE IF id \notin DOMAIN treatments
          THEN answer(404, MsgTreatmentNotFound) /\ UNCHANGED dbVars
          ELSE /\ treatments' = Put(treatments, id, treatments[id])
               /\ answer(200, TreatmentJson(id, treatments[id]))
               /\ UNCHANGED <<users, patients, wounds, images, files, nextId>>
    /\ UNCHANGED <<clientVars, now, gateVars, reqs>>

TreatmentPutBodies ==
  { TreatmentPutBody(st, c) : st \in {"", "COMPLETED", "CANCELLED", "DONE"},
                              c \in {<<>>, <<1>>} }
TreatmentPutHeaders == { NoHdr, Hdr("u2", "NURSE", "nuno@clinic", "Nuno") }
CompletionBodies ==
  { TreatmentBodyWithStatus(1, n, st) : n \in {<<>>, <<0>>}, st \in {"", "COMPLETED"} }

NextCompletion ==
  \/ Tick
  \/ TreatmentPostReceive(1, CompletionBodies, ScheduleTokens)
  \/ TreatmentPostFind
  \/ TreatmentPostCreate
  \/ TreatmentPutV1(TreatmentPutHeaders, TreatmentPutBodies)
  \/ TreatmentPutV2(ScheduleTokens, TreatmentPutBodies)

SpecCompletion == InitCareRace /\ [][NextCompletion]_vars

----------------------------------------------------------------------------
(* GET /api/wounds: the list and its statistics *)

\* Letters as mode: 'insensitive' compares them
Lower(c) ==
  CASE c = "A" -> "a"
    [] c = "H" -> "h"
    [] c = "S" -> "s"
    [] OTHER -> c
LowerSeq(str) == [i \in 1..Len(str) |-> Lower(str[i])]

\* { contains: search, mode: 'insensitive' }
ContainsInsensitive(str, search) ==
  \E i \in 0..(Len(str) - Len(search)) :
    SubSeq(LowerSeq(str), i + 1, i + Len(search)) = LowerSeq(search)

\* The `where` of findMany and count: search over the location and the
\* patient's name (no modelled wound has a description), then patientId (0:
\* absent), status and type ("": absent)
WoundMatches(row, search, patientId, status, type) ==
  /\ search # <<>> =>
       \/ ContainsInsensitive(row.location, search)
       \/ ContainsInsensitive(patients[row.patientId].name, search)
  /\ patientId # 0 => row.patientId = patientId
  /\ status # "" => row.status = status
  /\ type # "" => row.type = type

\* groupBy({ by: ['status'], where: patientId ? { patientId } : {} }), then
\* stats.find(s => s.status === st)?._count.id || 0
StatusCount(patientId, st) ==
  Cardinality({w \in DOMAIN wounds :
                 /\ patientId # 0 => wounds[w].patientId = patientId
                 /\ wounds[w].status = st})

ListSearches == {<<>>, <<"h">>, <<"a">>, <<"z">>}
ListStatuses == {"", "ACTIVE", "HEALED"}
ListTypes == {"", "OTHER", "SURGICAL"}
ListPages == {"", "2"}

\* The whole handler: it reads and writes nothing
WoundListGet ==
  \E search \in ListSearches, patientId \in 0..1, status \in ListStatuses,
     type \in ListTypes, p \in ListPages :
    /\ Busy = {}
    /\ LET r == [ status |-> status, op |-> "woundList", patientId |-> patientId,
                  type |-> type, page |-> p, search |-> search ]
           page == ParseInt(OrDefault(p, "1"))
           limit == ParseInt(OrDefault("", "10"))
           skip == (page - 1) * limit
           found == {w \in DOMAIN wounds :
                       WoundMatches(wounds[w], search, patientId, status, type)}
           total == Cardinality(found)
       IN IF page = NaN \/ FindManyFails(skip, limit)
          THEN last' = [status |-> 500, req |-> r, op |-> r.op, body |-> MsgServerError]
          ELSE last' = [ status |-> 200, req |-> r, op |-> r.op,
                         body |-> [ wounds |-> PageOf(found, skip, limit), total |-> total, limit |-> limit,
                                    page |-> page,
                                    pages |-> CeilDiv(total, limit),
                                    statistics |->
                                      [ total |-> total,
                                        active |-> StatusCount(patientId, "ACTIVE"),
                                        healing |-> StatusCount(patientId, "HEALING"),
                                        healed |-> StatusCount(patientId, "HEALED"),
                                        infected |-> StatusCount(patientId, "INFECTED") ] ] ]
    /\ UNCHANGED <<clientVars, now, gateVars, dbVars, reqs>>

ListWoundBodies ==
  { TypedWoundBody(1, ty, loc) : ty \in {"SURGICAL", "OTHER"},
                                 loc \in {LocHeel, <<"S", "a", "c", "r", "u", "m">>} }

NextWoundList ==
  \/ WoundPostReceive(1, ListWoundBodies, PatientRaceHeaders)
  \/ WoundPostFind
  \/ WoundPostCreate
  \/ WoundListGet

SpecWoundList == InitWound /\ [][NextWoundList]_vars

\* C24: in every wound-list response statistics.total equals the sum of the
\* per-status counts active + healing + healed + infected.
C24_StatisticsAddUp ==
  (last.op = "woundList" /\ last.status = 200) =>
    LET st == last.body.statistics
    IN st.total = st.active + st.healing + st.healed + st.infected

----------------------------------------------------------------------------
(* POST /api/auth/register *)

MaxRegistrations == 2
MinNameLen == 2

RegisterBody(n, e, p, r) == [email |-> e, role |-> r, name |-> n, password |-> p]

\* registerSchema.parse
ValidRegister(b) ==
  /\ Len(b.name) >= MinNameLen
  /\ IsEmail(b.email)
  /\ Len(b.password) >= MinPasswordLen
  /\ b.role \in Roles

\* The id column's default: a fresh id for each created user
NewUserId(i) ==
  CASE i = 1 -> "n1"
    [] i = 2 -> "n2"
    [] i = 3 -> "n3"
    [] OTHER -> "n4"
Registered == {i \in 1..(MaxRegistrations + 2) : NewUserId(i) \in DOMAIN users}

MsgEmailTaken == [error |-> "Email ja cadastrado"]
Salts == {"s1", "s2"}

RegisterReceive(k, bodies) ==
  \E b \in bodies :
    /\ Cardinality(Registered) + Cardinality({s \in Busy : reqs[s].op = "register"})
         < MaxRegistrations
    /\ Receive(k, [op |-> "register", body |-> b, pc |-> "find"])

\* request.json(), registerSchema.parse, prisma.user.findUnique by email
RegisterFind ==
  \E s \in Busy :
    /\ reqs[s].op = "register" /\ reqs[s].pc = "find"
    /\ LET b == reqs[s].body
       IN IF ~ValidRegister(b) THEN Respond(s, 400, MsgLoginInvalid)
          ELSE IF UsersByEmail(users, b.email) # {} THEN Respond(s, 409, MsgEmailTaken)
          ELSE Goto(s, "hash")
    /\ UNCHANGED <<clientVars, now, gateVars, dbVars>>

\* AuthService.hashPassword: bcrypt draws a salt
RegisterHash ==
  \E s \in Busy, salt \in Salts :
    /\ reqs[s].op = "register" /\ reqs[s].pc = "hash"
    /\ reqs' = [reqs EXCEPT ![s] = [ op |-> "register", body |-> reqs[s].body,
                                     pc |-> "create",
                                     hashed |-> bcryptHash(reqs[s].body.password, salt) ]]
    /\ UNCHANGED <<clientVars, now, gateVars, dbVars, last>>

\* prisma.user.create: users_email_key refuses a second row with the email and
\* the catch answers 500
RegisterCreate ==
  \E s \in Busy :
    /\ reqs[s].op = "register" /\ reqs[s].pc = "create"
    /\ LET b == reqs[s].body
           id == NewUserId(Cardinality(Registered) + 1)
           row == [ email |-> b.email, role |-> b.role, name |-> b.name, isActive |-> TRUE,
                    password |-> reqs[s].hashed, lastLogin |-> Unset ]
       IN IF UsersByEmail(users, b.email) # {}
          THEN /\ Respond(s, 500, MsgLoginError)
               /\ UNCHANGED dbVars
          ELSE /\ users' = Put(users, id, row)
               /\ Respond(s, 201, [ message |-> "Usuario criado com sucesso",
                                    user |-> [ email |-> b.email, role |-> b.role,
                                               name |-> b.name, id |-> id ] ])
               /\ UNCHANGED <<patients, wounds, treatments, images, files, nextId>>
    /\ UNCHANGED <<clientVars, now, gateVars>>

RegisterBodies ==
  { RegisterBody(n, e, PasswordAna, "NURSE") : n \in {NameAl, <<"A">>},
                                                e \in {EmailAna, EmailEve} }

NextRegister ==
  \/ RegisterReceive(MaxInflight, RegisterBodies)
  \/ RegisterFind
  \/ RegisterHash
  \/ RegisterCreate

SpecRegister == InitLogin /\ [][NextRegister]_vars

\* C25: no two users ever share an email; a valid register request whose email
\* is held when it is answered gets 409 and creates no user, and one whose
\* email is free gets 201.
C25_UniqueEmailAnd409 ==
  /\ [](\A u, v \in DOMAIN users : users[u].email = users[v].email => u = v)
  /\ [][ \A s \in Slots :
           (Answers(s, "register") /\ ValidRegister(reqs[s].body)) =>
             IF UsersByEmail(users, reqs[s].body.email) # {}
             THEN last'.status = 409 /\ users' = users
             ELSE last'.status = 201 ]_vars

----------------------------------------------------------------------------
(* Refresh tokens at the gate *)

\* tok is what generateRefreshToken signs: a payload of the userId alone
IsRefreshToken(tok) ==
  /\ tok.kind = "jwt" /\ tok.secret = JWT_SECRET
  /\ tok.sig = <<tok.payload, tok.exp>>
  /\ tok.payload = Claims(tok.payload.userId, "", "", "")

\* C26: a token of generateRefreshToken presented as the auth-token cookie or
\* as a Bearer header on a protected path is rejected like an invalid token
\* (401 for an API path, a redirect for a dashboard path) and no request
\* carrying one is forwarded to a handler.
C26_RefreshTokenRejected ==
  ( /\ gateRes.kind # "idle" /\ GateProtected
    /\ IsRefreshToken(RequestToken(gateReq)) ) =>
      IF GateProtectedApi THEN gateRes.kind = "json" /\ gateRes.status = 401
      ELSE gateRes.kind = "redirect"

----------------------------------------------------------------------------
(* What a caller without identity learns from POST /api/patients *)

ProbeBodies ==
  { PatientBody(NameBo, c, d) : c \in {Cpf1, Cpf2, ShortCpf}, d \in {"1990-05-17", "soon"} }
ProbeHeaders == { NoHdr, Hdr("u2", "NURSE", "nuno@clinic", "Nuno") }

\* The databases of the second run: no patient, and the one patient of Cpf1
ProbeTables == { EmptyTable, SeedPatients }

NextProbe ==
  \/ PatientPostReceive(1, ProbeBodies, ProbeHeaders)
  \/ PatientPostFind
  \/ PatientPostCreate
  \/ PatientGetReceive(1)
  \/ PatientGetFind
  \/ PatientDeleteReceive(1)
  \/ PatientDeleteFind
  \/ PatientDeleteUpdate

SpecProbe == InitWound /\ [][NextProbe]_vars

\* C27: the status POST /api/patients answers to a request without x-user-id
\* is the status the same request gets against any other database.
C27_AnswerIndependentOfData ==
  (last.op = "patientPost" /\ last.req.hdr.xUserId = "") =>
    \A tbl \in ProbeTables :
      PatientPostCheck(tbl, last.req.body, last.req.hdr).status = last.status

----------------------------------------------------------------------------
(* GET and PUT /api/images/{id} *)

\* A PUT body: not JSON, or JSON whose description is absent, a string or a
\* number
ImagePutBody(kind, d) == [kind |-> kind, description |-> d]

\* updateSchema.parse: description is an optional string, annotations anything
ValidUpdateImage(b) == b.kind \in {"absent", "string"}

ImageJson(id, row) == [id |-> id, row |-> row]

\* The x-user-id test, then findFirst with the responsibleId filter
ImageGet(clientHdrs) ==
  \E id \in ImageIdsAsked, h \in DeliveredHeaders(ImagesPath, clientHdrs) :
    /\ Busy = {}
    /\ LET r == [op |-> "imageGet", id |-> id, pc |-> "find", hdr |-> h]
           answer(status, body) ==
             last' = [status |-> status, req |-> r, op |-> r.op, body |-> body]
       IN IF h.xUserId = "" THEN answer(401, MsgUnauthorized)
          ELSE IF ~ImageAccessible(id, h.xUserId) THEN answer(404, MsgImageNotFound)
          ELSE answer(200, ImageJson(id, images[id]))
    /\ UNCHANGED <<clientVars, now, gateVars, dbVars, reqs>>

\* The x-user-id test, request.json(), updateSchema.parse, findFirst with the
\* responsibleId filter, update; an absent description leaves the column
ImagePut(clientHdrs, bodies) ==
  \E id \in ImageIdsAsked, h \in DeliveredHeaders(ImagesPath, clientHdrs), b \in bodies :
    /\ Busy = {}
    /\ LET r == [op |-> "imagePut", id |-> id, body |-> b, pc |-> "find", hdr |-> h]
           answer(status, body) ==
             last' = [status |-> status, req |-> r, op |-> r.op, body |-> body]
           row == IF b.kind = "string"
                  THEN [images[id] EXCEPT !.description = b.description]
                  ELSE images[id]
       IN IF h.xUserId = "" THEN answer(401, MsgUnauthorized) /\ UNCHANGED dbVars
          ELSE IF b.kind = "notJson" THEN answer(500, MsgServerError) /\ UNCHANGED dbVars
          ELSE IF ~ValidUpdateImage(b) THEN answer(400, MsgInvalid) /\ UNCHANGED dbVars
          ELSE IF ~ImageAccessible(id, h.xUserId)
          THEN answer(404, MsgImageNotFound) /\ UNCHANGED dbVars
          ELSE /\ images' = Put(images, id, row)
               /\ answer(200, ImageJson(id, row))
               /\ UNCHANGED <<users, patients, wounds, treatments, files, nextId>>
    /\ UNCHANGED <<clientVars, now, gateVars, reqs>>

ImagePutBodies ==
  { ImagePutBody("notJson", ""), ImagePutBody("absent", ""),
    ImagePutBody("string", "sacral"), ImagePutBody("number", "") }

NextImages ==
  \/ ImageGet(ImageClientHeaders)
  \/ ImagePut(ImageClientHeaders, ImagePutBodies)
  \/ ImageDeleteReceive(1, ImageClientHeaders)
  \/ ImageDeleteFind
  \/ ImageDeleteUnlink
  \/ ImageDeleteDelete

SpecImages == InitImages /\ [][NextImages]_vars

ImageOps == {"imageGet", "imagePut", "imageDelete"}

\* The request of an image operation comes from the responsible of the image's
\* patient
ByResponsible(r) == r.op \in ImageOps /\ ImageAccessible(r.id, r.hdr.xUserId)

\* This step answers an image request of the responsible
AnswersResponsible == last' # last /\ last'.op \in ImageOps /\ ByResponsible(last'.req)

\* C28: an answer of GET, PUT or DELETE /api/images/{id} to a caller who is not
\* the responsible of the image's patient is 404, or 401 without x-user-id, and
\* leaves image records and files as they were; records and files change only
\* in steps of a request of the responsible.
C28_ImagesOnlyForResponsible ==
  [][ /\ ( /\ last' # last /\ last'.op \in ImageOps
           /\ ~ImageAccessible(last'.req.id, last'.req.hdr.xUserId) ) =>
             /\ last'.status = IF last'.req.hdr.xUserId = "" THEN 401 ELSE 404
             /\ images' = images /\ files' = files
      /\ (images' # images \/ files' # files) =>
           \/ AnswersResponsible
           \/ \E s \in Busy : ByResponsible(reqs[s])
    ]_vars

\* The part of C28 about what a caller who is not the responsible gets to read
\* or change, whatever the status of the refusal
C28_OthersReadAndChangeNothing ==
  [][ /\ ( /\ last' # last /\ last'.op \in ImageOps
           /\ ~ImageAccessible(last'.req.id, last'.req.hdr.xUserId) ) =>
             /\ last'.status \in {400, 401, 404, 500}
             /\ images' = images /\ files' = files
      /\ (images' # images \/ files' # files) =>
           \/ AnswersResponsible
           \/ \E s \in Busy : ByResponsible(reqs[s])
    ]_vars

----------------------------------------------------------------------------
(* createRateLimiter; the clock counts milliseconds here *)

Identifiers == {"ip1", "ip2"}
RequestLimits == {0, 1, 2}
LimiterArgs == [maxRequests : RequestLimits, windowMs : 1..MaxTime]

\* A window one millisecond shorter
ValidRequestsShort(userRequests, windowStart) ==
  SelectSeq(userRequests, LAMBDA time : time > windowStart + 1)

\* userRequests.filter(time => time > windowStart)
ValidRequests(userRequests, windowStart) ==
  SelectSeq(userRequests, LAMBDA time : time > windowStart)

\* requests.get(identifier), the empty list when the Map has no entry
UserRequests(map, identifier) ==
  IF identifier \in DOMAIN map THEN map[identifier] ELSE <<>>

\* One call of the function createRateLimiter returned, at Date.now() = now
RateLimiterCall ==
  \E identifier \in Identifiers :
    LET windowStart == now - limiter.windowMs
        userRequests == UserRequests(requests, identifier)
        validRequests == ValidRequests(userRequests, windowStart)
        answer(result) ==
          last' = [op |-> "rateLimiter", result |-> result, identifier |-> identifier]
    IN /\ limiter # NoLimiter
       /\ IF Len(validRequests) >= limiter.maxRequests
          THEN /\ requests' = Put(requests, identifier, userRequests)
               /\ accepted' = accepted
               /\ answer(FALSE)
          ELSE /\ requests' = Put(requests, identifier, Append(validRequests, now))
               /\ accepted' = [accepted EXCEPT ![identifier] = Append(@, now)]
               /\ answer(TRUE)
       /\ UNCHANGED <<now, gateVars, dbVars, reqs, limiter, hookVars>>

\* createRateLimiter(maxRequests, windowMs) was called and the Map is empty
InitRateLimiter ==
  /\ now = 0
  /\ gateReq = NoRequest
  /\ gateRes = GateIdle
  /\ users = EmptyTable
  /\ patients = EmptyTable
  /\ wounds = EmptyTable
  /\ treatments = EmptyTable
  /\ images = EmptyTable
  /\ files = {}
  /\ nextId = NoIds
  /\ reqs = [s \in Slots |-> NoSlot]
  /\ last = NoLast
  /\ limiter \in LimiterArgs
  /\ requests = EmptyTable
  /\ accepted = [identifier \in Identifiers |-> <<>>]
  /\ state = InitialState
  /\ calls = <<>>

NextRateLimiter == Tick \/ RateLimiterCall

SpecRateLimiter == InitRateLimiter /\ [][NextRateLimiter]_vars

\* The number of calls for identifier that returned true at a time in from..to
AcceptedIn(identifier, from, to) ==
  Cardinality({ i \in DOMAIN accepted[identifier] :
                  accepted[identifier][i] >= from /\ accepted[identifier][i] <= to })

\* C29: with non-decreasing timestamps, the calls for one identifier that
\* return true within a span shorter than windowMs never number more than
\* maxRequests; a call that returns false leaves the identifier's entries as
\* they were, and a call leaves the entries of every other identifier as they
\* were.
C29_RateLimiterWindow ==
  /\ [](\A identifier \in Identifiers, from \in 0..MaxTime :
          AcceptedIn(identifier, from, from + limiter.windowMs - 1) <= limiter.maxRequests)
  /\ [][ (last' # last /\ last'.op = "rateLimiter") =>
           /\ ~last'.result =>
                UserRequests(requests', last'.identifier)
                  = UserRequests(requests, last'.identifier)
           /\ \A other \in Identifiers \ {last'.identifier} :
                UserRequests(requests', other) = UserRequests(requests, other)
       ]_vars

\* A call was refused for an identifier that, over a longer time, was let
\* through more than maxRequests times, while the other identifier was let
\* through as well
C29_Witness ==
  /\ last.op = "rateLimiter" /\ ~last.result
  /\ limiter.maxRequests >= 1
  /\ AcceptedIn(last.identifier, 0, MaxTime) > limiter.maxRequests
  /\ \E other \in Identifiers \ {last.identifier} : AcceptedIn(other, 0, MaxTime) >= 1

----------------------------------------------------------------------------
(* useAsyncOperation: call i resolves with data i or rejects with message i;
   0 stands for null *)

MaxCalls == 4

\* execute up to its await: setState(prev => ({ ...prev, loading: true, error: null }))
ExecuteStart ==
  /\ Len(calls) < MaxCalls
  /\ state' = [state EXCEPT !.loading = TRUE, !.error = 0]
  /\ calls' = Append(calls, [status |-> "pending"])
  /\ UNCHANGED <<now, gateVars, dbVars, svcVars, limiterVars>>

\* asyncFunction() of call i resolved: setState({ data: result, loading: false, error: null })
ExecuteResolve ==
  \E i \in DOMAIN calls :
    /\ calls[i].status = "pending"
    /\ state' = [data |-> i, loading |-> FALSE, error |-> 0]
    /\ calls' = [calls EXCEPT ![i].status = "resolved"]
    /\ UNCHANGED <<now, gateVars, dbVars, svcVars, limiterVars>>

\* asyncFunction() of call i rejected:
\* setState(prev => ({ ...prev, loading: false, error: errorMsg }))
ExecuteReject ==
  \E i \in DOMAIN calls :
    /\ calls[i].status = "pending"
    /\ state' = [state EXCEPT !.loading = FALSE, !.error = i]
    /\ calls' = [calls EXCEPT ![i].status = "rejected"]
    /\ UNCHANGED <<now, gateVars, dbVars, svcVars, limiterVars>>

NextHook == ExecuteStart \/ ExecuteResolve \/ ExecuteReject

SpecHook == InitService /\ [][NextHook]_vars

\* C30: the hook's state is that of the execute call started last: loading
\* while that call is in flight, and once it has settled its result with no
\* error, or its error, whatever earlier calls did afterwards.
C30_StateFollowsLatestCall ==
  calls # <<>> =>
    LET latest == Len(calls)
    IN CASE calls[latest].status = "pending" -> state.loading
         [] calls[latest].status = "resolved" ->
              ~state.loading /\ state.data = latest /\ state.error = 0
         [] calls[latest].status = "rejected" ->
              ~state.loading /\ state.error = latest

====
